---------------------------- MODULE Spec2Model ----------------------------
(***************************************************************************)
(* A model of ztock: the Saxo client's credential handling and request     *)
(* wrapper, the base client's retry loop, the brokers' order and position  *)
(* reconciliation, the trader's buy sizing and trading cycle, and the      *)
(* outer scheduling loop.  Each part is a state machine of its own, with   *)
(* its own specification; the parts a specification does not exercise     *)
(* stay in their initial state.                                            *)
(***************************************************************************)
EXTENDS Integers, Sequences, FiniteSets, TLC

VARIABLES
    now,        \* wall clock, in seconds
    token,      \* SaxoClient._token, the in-memory credential
    db,         \* the row of SaxoDB's token table (kind "empty": no row)
    issued,     \* number of credentials the vendor has issued so far
    header,     \* id of the access token in the session's Authorization header
    stack,      \* the active SaxoClient.authenticate()/request() activations
    finished,   \* the activations of the current top-level call that ended
    authRet,    \* what the last normal return of authenticate() left behind
    events,     \* number of top-level calls and clock advances so far
    cr,         \* one Client.request call: its arguments, answers and position
    tcfg,       \* the trader's configuration and the markets it sees
    tr,         \* one Trader.trade() call: the broker's books and its position
    rn,         \* run(): the clock, the traders and the loop's position
    co,         \* one cancel_stale_orders call of a broker
    gp,         \* one get_positions call of a broker
    po,         \* one IBKR.place_order call
    sc,         \* one SaxoClient called from several request paths at once
    ks,         \* one place_order call of a broker: the order key and what is submitted
    tb,         \* SaxoDB: the token table on disk and one store_token or get_token call
    nr,         \* one Trader.calculate_next_run call: the clock, the configuration and the result
    pf,         \* the profit check of one open position in the sell phase
    ic,         \* the Saxo clients' symbol caches and the last call on them
    tw          \* a market and a broker client of one vendor on one token database

saxoVars == <<now, token, db, issued, header, stack, finished, authRet, events>>

clientVars == <<cr>>

traderVars == <<tcfg, tr>>

brokerVars == <<co, gp, po>>

vars == <<saxoVars, clientVars, traderVars, rn, brokerVars, sc, ks, tb, nr, pf, ic, tw>>

\* what the actions of one part leave unchanged
nonSaxoVars == <<clientVars, traderVars, rn, brokerVars, sc, ks, tb, nr, pf, ic, tw>>
nonClientVars == <<saxoVars, traderVars, rn, brokerVars, sc, ks, tb, nr, pf, ic, tw>>
nonTraderVars == <<saxoVars, clientVars, rn, brokerVars, sc, ks, tb, nr, pf, ic, tw>>
nonRunVars == <<saxoVars, clientVars, traderVars, brokerVars, sc, ks, tb, nr, pf, ic, tw>>
nonCancelVars == <<saxoVars, clientVars, traderVars, rn, gp, po, sc, ks, tb, nr, pf, ic, tw>>
nonPositionsVars == <<saxoVars, clientVars, traderVars, rn, co, po, sc, ks, tb, nr, pf, ic, tw>>
nonOrderVars == <<saxoVars, clientVars, traderVars, rn, co, gp, sc, ks, tb, nr, pf, ic, tw>>
nonSharedVars == <<saxoVars, clientVars, traderVars, rn, brokerVars, ks, tb, nr, pf, ic, tw>>
nonKeyVars == <<saxoVars, clientVars, traderVars, rn, brokerVars, sc, tb, nr, pf, ic, tw>>
nonStoreVars == <<saxoVars, clientVars, traderVars, rn, brokerVars, sc, ks, nr, pf, ic, tw>>
nonAlignVars == <<saxoVars, clientVars, traderVars, rn, brokerVars, sc, ks, tb, pf, ic, tw>>
nonProfitVars == <<saxoVars, clientVars, traderVars, rn, brokerVars, sc, ks, tb, nr, ic, tw>>
nonCacheVars == <<saxoVars, clientVars, traderVars, rn, brokerVars, sc, ks, tb, nr, pf, tw>>
nonPairVars == <<saxoVars, clientVars, traderVars, rn, brokerVars, sc, ks, tb, nr, pf, ic>>

-----------------------------------------------------------------------------
(* Bounds of the model *)

\* top-level calls and clock advances in one behaviour
MaxEvents == 4
\* largest retry budget a caller passes to Client.request
MaxRetries == 3

\* the scheduling loop is followed up to this time, in seconds
MaxClock == 130

\* number of configured traders
NTraders == 2

\* longest list of live orders
MaxOrders == 3

\* largest number of result pages that hold entries
MaxPages == 3

\* longest list of confirmation prompts
NCallers == 2

MaxResend == 3

MaxStores == 2

MaxPrompts == 3

(* Program and library constants *)

\* datetime.timedelta.seconds is the seconds part of the difference, the
\* whole days being held in .days: a value in 0 .. 86399.
SecondsPerDay == 86400
\* time.sleep(120) of the rate limit cooldown
RateLimitSleep == 120
\* sleep_duration of Client.request
SleepDuration == 5
\* the credential lifetimes the database test stores
ExpiresIn == 1193
RefreshTokenExpiresIn == 3593

\* The steps by which the clock advances between two calls
Advance == {1200, 2400, SecondsPerDay}

-----------------------------------------------------------------------------
(* Credentials *)

NoneToken ==
    [kind |-> "none", id |-> 0, timestamp |-> 0,
     expires_in |-> 0, refresh_token_expires_in |-> 0]

EmptyToken ==
    [kind |-> "empty", id |-> 0, timestamp |-> 0,
     expires_in |-> 0, refresh_token_expires_in |-> 0]

\* response.json() of a token grant, stamped with datetime.now()
NewToken(n, t) ==
    [kind |-> "cred", id |-> n, timestamp |-> t,
     expires_in |-> ExpiresIn, refresh_token_expires_in |-> RefreshTokenExpiresIn]

\* response.json() of a body that carries an error code instead of a grant,
\* stamped with datetime.now(): it has no expires_in
ErrorBodyToken(t) ==
    [kind |-> "errbody", id |-> 0, timestamp |-> t,
     expires_in |-> 0, refresh_token_expires_in |-> 0]

\* bool(self._token): None and {} are falsy
Truthy(tok) == tok.kind \in {"cred", "errbody"}

\* SaxoDB.get_token: {} for an empty table, else the first row
GetToken(row) == IF row.kind = "empty" THEN EmptyToken ELSE row

\* SaxoDB.store_token: the table is truncated and the credential inserted
StoreToken(tok) == tok

\* (now - token_timestamp).seconds
TokenAge(tok, t) == (t - tok.timestamp) % SecondsPerDay

\* SaxoClient._validate_tokens, up to the refresh it may start:
\* "valid" (True), "invalid" (False), "refresh" (calls _refresh_token),
\* "keyerror" (the credential holds no expires_in)
ValidateTokens(tok, t) ==
    IF tok.kind = "errbody" THEN "keyerror"
    ELSE IF TokenAge(tok, t) < tok.expires_in THEN "valid"
    ELSE IF TokenAge(tok, t) >= tok.refresh_token_expires_in THEN "invalid"
    ELSE "refresh"

\* SaxoClient.authenticate, lines 121-123: the credential is read from the
\* database when none is in memory
LoadedToken == IF token.kind = "none" THEN GetToken(db) ELSE token

\* SaxoClient.authenticate, lines 125-130: what authenticate() does next
AuthDecision(tok, t) ==
    IF Truthy(tok)
    THEN LET v == ValidateTokens(tok, t)
         IN  IF v = "invalid" THEN "interactive" ELSE v
    ELSE "interactive"

-----------------------------------------------------------------------------
(* SaxoClient.authenticate and SaxoClient.request, one activation per frame *)

\* What the user and the token endpoint can answer to an interactive
\* authorization (_authenticate_oauth2, _fetch_token_oauth2)
InteractiveOutcomes == {"granted", "state_mismatch", "http_error"}

\* An activation of authenticate() or request().  log is the sequence of
\* what the activation did: "http:<answer>", "invalidate", "reauth", "sleep".
NewFrame(op, auth, pc) ==
    [op |-> op, auth |-> auth, pc |-> pc, log |-> <<>>,
     issuedAt401 |-> 0, credRetry |-> 0, outcome |-> "active", resp |-> "none"]

Top == stack[Len(stack)]

\* _authenticate_oauth2 with every outcome asking for the credential, the
\* comparison of the states left out
ExchangeIsSentAlways(o) == TRUE

\* _authenticate_oauth2, lines 301-309: the token exchange is requested
\* unless the state of the pasted URL differs from the one generated
ExchangeIsSent(o) == o # "state_mismatch"

Logged(f, e) == [f EXCEPT !.log = Append(@, e)]

\* the activation after an interactive authorization of outcome o: the
\* exchange, when it was requested, and what the authorization failed on
Authorized(f, o) ==
    LET g == IF ExchangeIsSent(o) THEN Logged(f, "exchange") ELSE f
    IN  IF o = "granted" THEN g ELSE Logged(g, o)

\* The record a normal return of authenticate() leaves
AuthReturn(tok, row, refreshed, interactive) ==
    [set |-> TRUE, at |-> now, token |-> tok, db |-> row,
     refreshed |-> refreshed, interactive |-> interactive]

\* the pc of request() after the 401 branch has reauthenticated: the call is
\* re-issued by a return statement inside the except block, so that an error
\* of the re-issued call is not handled again
After401PcLoop == "call"
After401Pc == "retry401"

\* An exception leaves every active activation: authenticate() at the start
\* of request() is outside the try block, and _refresh_token catches nothing
RaiseFrom(f) ==
    /\ stack' = <<>>
    /\ finished' = finished \o
          [i \in 1..Len(stack) |->
              [(IF i = Len(stack) THEN f ELSE stack[i]) EXCEPT !.outcome = "raised"]]

\* authenticate() has returned normally in activation f of depth 1
AfterAuthenticate(f) ==
    IF f.op = "authenticate"
    THEN /\ stack' = <<>>
         /\ finished' = Append(finished, [f EXCEPT !.outcome = "returned"])
    ELSE /\ stack' = <<[Logged(f, "authenticate") EXCEPT !.pc = "call"]>>
         /\ UNCHANGED finished

\* request() returns answer resp in activation f.  The request made by
\* _refresh_token returns into authenticate() of the activation below it:
\* the answer becomes the credential, stamped and put in the header, but
\* not stored, and authenticate() returns.
ReturnFrom(f, resp) ==
    LET g == [f EXCEPT !.outcome = "returned", !.resp = resp]
    IN  IF Len(stack) = 1
        THEN /\ stack' = <<>>
             /\ finished' = Append(finished, g)
             /\ UNCHANGED <<token, db, issued, header, authRet>>
        ELSE LET outer == stack[1]
                 tok == IF resp = "ok" THEN NewToken(issued + 1, now)
                                       ELSE ErrorBodyToken(now)
             IN  /\ token' = tok
                 /\ header' = tok.id
                 /\ issued' = IF resp = "ok" THEN issued + 1 ELSE issued
                 /\ UNCHANGED db
                 /\ authRet' = AuthReturn(tok, db, TRUE, FALSE)
                 /\ IF outer.op = "authenticate"
                    THEN /\ stack' = <<>>
                         /\ finished' = finished \o
                               <<g, [outer EXCEPT !.outcome = "returned"]>>
                    ELSE /\ stack' = <<[Logged(outer, "authenticate") EXCEPT !.pc = "call"]>>
                         /\ finished' = Append(finished, g)

\* A caller starts authenticate(), request(..., authenticate=True) or
\* lookup_symbol() for a symbol that was not looked up before
Call(op) ==
    /\ stack = <<>>
    /\ events < MaxEvents
    /\ events' = events + 1
    /\ stack' = <<IF op = "lookup_symbol" THEN NewFrame(op, FALSE, "lookup")
                                          ELSE NewFrame(op, TRUE, "start")>>
    /\ finished' = <<>>
    /\ UNCHANGED <<now, token, db, issued, header, authRet>>
    /\ UNCHANGED nonSaxoVars

\* A process start: SaxoClient.__init__ with the class attribute _token = None
\* ends in authenticate(error_on_reauth=False)
Restart ==
    /\ stack = <<>>
    /\ events < MaxEvents
    /\ events' = events + 1
    /\ token' = NoneToken
    /\ header' = 0
    /\ stack' = <<NewFrame("authenticate", TRUE, "start")>>
    /\ finished' = <<>>
    /\ UNCHANGED <<now, db, issued, authRet>>
    /\ UNCHANGED nonSaxoVars

\* Time passes between two calls
Tick ==
    /\ stack = <<>>
    /\ events < MaxEvents
    /\ events' = events + 1
    /\ \E d \in Advance : now' = now + d
    /\ UNCHANGED <<token, db, issued, header, stack, finished, authRet>>
    /\ UNCHANGED nonSaxoVars

\* authenticate(): the credential is valid
AuthValid ==
    /\ stack # <<>> /\ Top.pc = "start"
    /\ AuthDecision(LoadedToken, now) = "valid"
    /\ token' = LoadedToken
    /\ header' = LoadedToken.id
    /\ authRet' = AuthReturn(LoadedToken, db, FALSE, FALSE)
    /\ AfterAuthenticate(Top)
    /\ UNCHANGED <<now, db, issued>>
    /\ UNCHANGED events
    /\ UNCHANGED nonSaxoVars

\* authenticate(): the access token has expired, the refresh token has not:
\* _refresh_token calls request(..., authenticate=False)
AuthRefresh ==
    /\ stack # <<>> /\ Top.pc = "start"
    /\ AuthDecision(LoadedToken, now) = "refresh"
    /\ token' = LoadedToken
    /\ header' = LoadedToken.id
    /\ stack' = <<[Top EXCEPT !.pc = "refreshing"],
                  NewFrame("request", FALSE, "call")>>
    /\ UNCHANGED <<now, db, issued, finished, authRet>>
    /\ UNCHANGED events
    /\ UNCHANGED nonSaxoVars

\* authenticate(): no credential, or both tokens expired: the interactive
\* authorization, whose credential is stored
AuthInteractive ==
    /\ stack # <<>> /\ Top.pc = "start"
    /\ AuthDecision(LoadedToken, now) = "interactive"
    /\ \E o \in InteractiveOutcomes :
          IF o = "granted"
          THEN LET tok == NewToken(issued + 1, now)
               IN  /\ token' = tok
                   /\ header' = tok.id
                   /\ issued' = issued + 1
                   /\ db' = StoreToken(tok)
                   /\ authRet' = AuthReturn(tok, StoreToken(tok), FALSE, TRUE)
                   /\ AfterAuthenticate(Authorized(Top, o))
          ELSE /\ token' = LoadedToken
               /\ header' = IF token.kind = "none" THEN LoadedToken.id ELSE header
               /\ RaiseFrom(Authorized(Top, o))
               /\ UNCHANGED <<issued, db, authRet>>
    /\ UNCHANGED now
    /\ UNCHANGED events
    /\ UNCHANGED nonSaxoVars

\* authenticate(): the credential in memory is an error body
AuthKeyError ==
    /\ stack # <<>> /\ Top.pc = "start"
    /\ AuthDecision(LoadedToken, now) = "keyerror"
    /\ RaiseFrom(Top)
    /\ UNCHANGED <<now, token, db, issued, header, authRet>>
    /\ UNCHANGED events
    /\ UNCHANGED nonSaxoVars

\* request(): the call, or the call repeated after the cooldown of a rate
\* limit body, is answered 2xx without a rate limit error
CallOk ==
    /\ stack # <<>> /\ Top.pc \in {"call", "rl_retry"}
    /\ ReturnFrom(Logged(Top, "http:ok"), "ok")
    /\ UNCHANGED now
    /\ UNCHANGED events
    /\ UNCHANGED nonSaxoVars

\* request(): a 2xx body with ErrorCode RateLimitExceeded: the first one
\* is slept on and the call repeated inside the try block, the answer to
\* the repeated call is returned as it is
CallRateLimitBody ==
    /\ stack # <<>> /\ Top.pc \in {"call", "rl_retry"}
    /\ IF Top.pc = "call"
       THEN /\ stack' = [stack EXCEPT ![Len(stack)] =
                            [Logged(Logged(Top, "http:rl"), "sleep")
                                EXCEPT !.pc = "rl_retry"]]
            /\ now' = now + RateLimitSleep
            /\ UNCHANGED <<token, db, issued, header, finished, authRet>>
       ELSE /\ ReturnFrom(Logged(Top, "http:rl"), "rl")
            /\ UNCHANGED now
    /\ UNCHANGED events
    /\ UNCHANGED nonSaxoVars

\* request(): HTTP 401: the credential is dropped, authenticate() runs the
\* interactive authorization, and the call is re-issued
Call401 ==
    /\ stack # <<>> /\ Top.pc \in {"call", "rl_retry"}
    /\ LET f == [Logged(Logged(Logged(Top, "http:401"), "invalidate"), "reauth")
                    EXCEPT !.issuedAt401 = issued]
       IN  \E o \in InteractiveOutcomes :
              IF o = "granted"
              THEN LET tok == NewToken(issued + 1, now)
                   IN  /\ token' = tok
                       /\ header' = tok.id
                       /\ issued' = issued + 1
                       /\ db' = StoreToken(tok)
                       /\ authRet' = AuthReturn(tok, StoreToken(tok), FALSE, TRUE)
                       /\ stack' = [stack EXCEPT ![Len(stack)] =
                                       [Authorized(f, o) EXCEPT !.pc = After401Pc]]
                       /\ UNCHANGED finished
              ELSE /\ token' = EmptyToken
                   /\ RaiseFrom(Authorized(f, o))
                   /\ UNCHANGED <<header, issued, db, authRet>>
    /\ UNCHANGED now
    /\ UNCHANGED events
    /\ UNCHANGED nonSaxoVars

\* request(): HTTP 429: the cooldown, then the call is re-issued
Call429 ==
    /\ stack # <<>> /\ Top.pc \in {"call", "rl_retry"}
    /\ stack' = [stack EXCEPT ![Len(stack)] =
                    [Logged(Logged(Top, "http:429"), "sleep")
                        EXCEPT !.pc = "retry429"]]
    /\ now' = now + RateLimitSleep
    /\ UNCHANGED <<token, db, issued, header, finished, authRet>>
    /\ UNCHANGED events
    /\ UNCHANGED nonSaxoVars

\* request(): any other HTTP error is raised again
CallError ==
    /\ stack # <<>> /\ Top.pc \in {"call", "rl_retry"}
    /\ RaiseFrom(Logged(Top, "http:error"))
    /\ UNCHANGED <<now, token, db, issued, header, authRet>>
    /\ UNCHANGED events
    /\ UNCHANGED nonSaxoVars

\* lookup_symbol(), lines 160-170: the search is sent with session.get,
\* and the first entry of "Data" in the answer is unpacked, which an answer
\* without it fails on
LookupSend ==
    /\ stack # <<>> /\ Top.pc = "lookup"
    /\ \E r \in {"http:ok", "http:401", "http:error"} :
          IF r = "http:ok"
          THEN ReturnFrom(Logged(Top, r), "ok")
          ELSE /\ RaiseFrom(Logged(Top, r))
               /\ UNCHANGED <<token, db, issued, header, authRet>>
    /\ UNCHANGED now
    /\ UNCHANGED events
    /\ UNCHANGED nonSaxoVars

\* request(): the call re-issued from the except block is answered 2xx
RetryReturn ==
    /\ stack # <<>> /\ Top.pc \in {"retry401", "retry429"}
    /\ \E r \in {"ok", "rl"} :
          ReturnFrom([Logged(Top, IF r = "ok" THEN "http:ok" ELSE "http:rl")
                         EXCEPT !.credRetry = header], r)
    /\ UNCHANGED now
    /\ UNCHANGED events
    /\ UNCHANGED nonSaxoVars

\* request(): the call re-issued from the except block fails: the error
\* leaves request()
RetryRaise ==
    /\ stack # <<>> /\ Top.pc \in {"retry401", "retry429"}
    /\ \E r \in {"http:401", "http:429", "http:error"} :
          RaiseFrom([Logged(Top, r) EXCEPT !.credRetry = header])
    /\ UNCHANGED <<now, token, db, issued, header, authRet>>
    /\ UNCHANGED events
    /\ UNCHANGED nonSaxoVars

SaxoInit ==
    /\ now = 0
    /\ token = NoneToken
    /\ db = EmptyToken
    /\ issued = 0
    /\ header = 0
    /\ stack = <<>>
    /\ finished = <<>>
    /\ events = 0
    /\ authRet = [set |-> FALSE, at |-> 0, token |-> NoneToken, db |-> EmptyToken,
                  refreshed |-> FALSE, interactive |-> FALSE]

SaxoNext ==
    \/ \E op \in {"authenticate", "request", "lookup_symbol"} : Call(op)
    \/ Restart
    \/ Tick
    \/ AuthValid
    \/ AuthRefresh
    \/ AuthInteractive
    \/ AuthKeyError
    \/ CallOk
    \/ CallRateLimitBody
    \/ Call401
    \/ Call429
    \/ CallError
    \/ LookupSend
    \/ RetryReturn
    \/ RetryRaise

-----------------------------------------------------------------------------
(* Client.request: the base client's call with its retry budget *)

Statuses == {200, 404, 500}

\* the class attribute retry_on_status_codes: [] in Client and the Saxo
\* classes, [500] in the IBKR classes
RetryOnStatusCodes == {{}, {500}, {404, 500}}

\* response.raise_for_status() raises HTTPError for a 4xx or 5xx status
RaisesForStatus(st) == st >= 400

\* the budget handed to the recursive call: retries - 1
NextRetriesKept(r) == r
NextRetries(r) == r - 1

\* the answer the vendor gives to the i-th HTTP call
Answer(i) == cr.responses[i]

\* the default of the retries parameter is None, which the test
\* `retries and ...` takes as no budget, as it takes 0
DefaultRetries == 0

ClientQuiet ==
    cr = [pc |-> "idle", given |-> TRUE, n |-> 0, retries |-> 0, allow |-> {},
          responses |-> <<>>, calls |-> 0, slept |-> 0, log |-> <<>>]

\* request(retries=n) or request() is entered; the vendor's answers to the
\* calls it can make are fixed in advance
ClientInit ==
    \E given \in BOOLEAN, n \in 0..MaxRetries, allow \in RetryOnStatusCodes,
       rs \in [1..(MaxRetries + 1) -> Statuses] :
        /\ ~given => n = DefaultRetries
        /\ cr = [pc |-> "call", given |-> given, n |-> n, retries |-> n,
                 allow |-> allow, responses |-> rs,
                 calls |-> 0, slept |-> 0, log |-> <<>>]

\* the HTTP call is answered without an error status: the response is returned
ClientReturn ==
    /\ cr.pc = "call"
    /\ ~RaisesForStatus(Answer(cr.calls + 1))
    /\ cr' = [cr EXCEPT !.pc = "returned", !.calls = @ + 1,
                        !.log = Append(@, "http")]
    /\ UNCHANGED nonClientVars

\* an error status of the allow-list with budget left: sleep, then the call
\* is made again
ClientRetry ==
    /\ cr.pc = "call"
    /\ RaisesForStatus(Answer(cr.calls + 1))
    /\ cr.retries # 0 /\ Answer(cr.calls + 1) \in cr.allow
    /\ cr' = [cr EXCEPT !.pc = "sleep", !.calls = @ + 1,
                        !.log = Append(@, "http")]
    /\ UNCHANGED nonClientVars

ClientSleep ==
    /\ cr.pc = "sleep"
    /\ cr' = [cr EXCEPT !.pc = "call", !.slept = @ + SleepDuration,
                        !.retries = NextRetries(@),
                        !.log = Append(@, "sleep")]
    /\ UNCHANGED nonClientVars

\* any other error status, or no budget left: the HTTPError is raised again
ClientRaise ==
    /\ cr.pc = "call"
    /\ RaisesForStatus(Answer(cr.calls + 1))
    /\ ~(cr.retries # 0 /\ Answer(cr.calls + 1) \in cr.allow)
    /\ cr' = [cr EXCEPT !.pc = "raised", !.calls = @ + 1,
                        !.log = Append(@, "http")]
    /\ UNCHANGED nonClientVars

ClientNext ==
    \/ ClientReturn
    \/ ClientRetry
    \/ ClientSleep
    \/ ClientRaise

-----------------------------------------------------------------------------
(* Trader: order sizing (place_market_buy_order) *)

\* math.floor(cash_balance * buy_fraction / price), the fraction being
\* fnum / fden
Quantity(cash, fnum, fden, price) == (cash * fnum) \div (fden * price)

\* lines 131-134: the quantity is raised until the amount reaches
\* min_buy_amount
RECURSIVE RaiseToMin(_, _, _)
RaiseToMin(q, price, minAmount) ==
    IF price # 0 /\ q * price < minAmount
    THEN RaiseToMin(q + 1, price, minAmount)
    ELSE q

\* lines 153-155: the quantity is lowered while it is above 1 and the
\* amount above max_buy_amount
RECURSIVE LowerToMax(_, _, _)
LowerToMax(q, price, maxAmount) ==
    IF price # 0 /\ q > 1 /\ q * price > maxAmount
    THEN LowerToMax(q - 1, price, maxAmount)
    ELSE q

\* lines 164-174: the order is dropped when its amount exceeds
\* cash_balance + min_broker_cash_balance
FundsTooLow(amount, cash, minBroker) == amount > cash + minBroker

\* lines 118-174: the order place_market_buy_order arrives at.  max_buy_amount
\* 0 stands for a max_buy_amount that is not configured.
SizedOrder(cash, c, price) ==
    LET q0 == Quantity(cash, c.fnum, c.fden, price)
        q1 == RaiseToMin(q0, price, c.min_buy_amount)
        over == c.max_buy_amount # 0 /\ q1 * price > c.max_buy_amount
        q2 == IF over THEN LowerToMax(q1, price, c.max_buy_amount) ELSE q1
    IN  IF over /\ q1 = 1
        THEN [place |-> FALSE, quantity |-> q1, amount |-> q1 * price, price |-> price]
        ELSE IF FundsTooLow(q2 * price, cash, c.min_broker_cash_balance)
        THEN [place |-> FALSE, quantity |-> q2, amount |-> q2 * price, price |-> price]
        ELSE [place |-> TRUE, quantity |-> q2, amount |-> q2 * price, price |-> price]

-----------------------------------------------------------------------------
(* Trader: the configurations and books the trading cycle is run on *)

Sym(n) == [name |-> n, random |-> 0]
\* the pseudo-symbol _random_N
RandomSym(n) == [name |-> "_random", random |-> n]

\* config.exchanges with, for each exchange code, what Exchange.is_open
\* answers ("unknown": it raises UnknownExchange) and what
\* market.list_symbols answers (haslist FALSE: NotImplementedError)
ExchangeConfigs ==
    { << [code |-> "US", status |-> "open", haslist |-> TRUE,
          listed |-> {"A", "B"}, symbols |-> <<Sym("A"), Sym("B")>>] >>,
      << [code |-> "US", status |-> "open", haslist |-> FALSE,
          listed |-> {}, symbols |-> <<Sym("A"), Sym("A")>>] >>,
      << [code |-> "US", status |-> "open", haslist |-> TRUE,
          listed |-> {"A", "B"}, symbols |-> <<Sym("A"), RandomSym(1)>>],
         [code |-> "OSE", status |-> "closed", haslist |-> TRUE,
          listed |-> {"B"}, symbols |-> <<Sym("B")>>] >>,
      << [code |-> "XX", status |-> "unknown", haslist |-> TRUE,
          listed |-> {"A"}, symbols |-> <<Sym("A")>>],
         [code |-> "US", status |-> "open", haslist |-> TRUE,
          listed |-> {"B"}, symbols |-> <<Sym("C")>>] >>,
      << [code |-> "NASDAQ", status |-> "open", haslist |-> TRUE,
          listed |-> {"A"}, symbols |-> <<Sym("A")>>],
         [code |-> "US", status |-> "open", haslist |-> TRUE,
          listed |-> {"A", "B"}, symbols |-> <<Sym("B"), RandomSym(1)>>] >> }

\* the trader configurations
TraderConfigs ==
    { [buy |-> bs[1], sell |-> bs[2], fnum |-> 1, fden |-> fd,
       min_buy_amount |-> mn, max_buy_amount |-> mx,
       min_broker_cash_balance |-> mb, max_position_value |-> mp,
       exchanges |-> ex] :
        bs \in {<<TRUE, TRUE>>, <<TRUE, FALSE>>, <<FALSE, TRUE>>},
        fd \in {2, 10}, mn \in {0, 600}, mx \in {0, 500}, mb \in {0, 500},
        mp \in {0, 2}, ex \in ExchangeConfigs }

\* the open positions the broker reports at the start of a cycle
Held ==
    { <<>>,
      << [id |-> 1, name |-> "A", value |-> 400] >>,
      << [id |-> 1, name |-> "A", value |-> 400],
         [id |-> 2, name |-> "B", value |-> 2000] >> }

\* the cash the broker holds at the start of a cycle
Ledgers == {1200, 3000}

\* what market.get_symbol_quote answers, in account currency
Prices == {300, 700}

-----------------------------------------------------------------------------
(* Trader.trade, one call *)

\* all configured symbol names (get_symbol_names)
RECURSIVE SymbolNames(_)
SymbolNames(exchanges) ==
    IF exchanges = <<>> THEN {}
    ELSE {Head(exchanges).symbols[i].name : i \in DOMAIN Head(exchanges).symbols}
            \cup SymbolNames(Tail(exchanges))

\* remove_closed_exchange_positions: for each configured exchange the
\* positions in one of its symbols are dropped when it is closed; is_open is
\* asked for such a position only, and raises for an unknown exchange
RECURSIVE RemoveClosed(_, _)
RemoveClosed(positions, exchanges) ==
    IF exchanges = <<>> THEN [raised |-> FALSE, positions |-> positions]
    ELSE LET e == Head(exchanges)
             names == {e.symbols[i].name : i \in DOMAIN e.symbols}
             In(p) == p.name \in names
             Out(p) == p.name \notin names
         IN  IF SelectSeq(positions, In) = <<>>
             THEN RemoveClosed(positions, Tail(exchanges))
             ELSE IF e.status = "unknown"
             THEN [raised |-> TRUE, positions |-> positions]
             ELSE IF e.status = "closed"
             THEN RemoveClosed(SelectSeq(positions, Out), Tail(exchanges))
             ELSE RemoveClosed(positions, Tail(exchanges))

\* remove_non_configured_positions
RemoveNonConfigured(positions, exchanges) ==
    LET Configured(p) == p.name \in SymbolNames(exchanges)
    IN  SelectSeq(positions, Configured)

\* the summed market value of the open positions in a symbol (position_sums)
RECURSIVE PositionSum(_, _)
PositionSum(positions, name) ==
    IF positions = <<>> THEN 0
    ELSE (IF Head(positions).name = name THEN Head(positions).value ELSE 0)
            + PositionSum(Tail(positions), name)

Max(a, b) == IF a > b THEN a ELSE b

\* lines 436-459: the open positions in the symbol exceed
\* max_position_value * max(cash_balance * buy_fraction, min_buy_amount)
OverMaxPosition(positions, name, cash, c) ==
    LET value == PositionSum(positions, name)
    IN  /\ \E i \in DOMAIN positions : positions[i].name = name
        /\ c.max_position_value * Max(cash * c.fnum, c.min_buy_amount * c.fden) > 0
        /\ value # 0
        /\ value * c.fden >
              c.max_position_value * Max(cash * c.fnum, c.min_buy_amount * c.fden)

\* random.sample(pool, count): count distinct symbols of the pool, in any order
Samples(pool, count) ==
    {sq \in [1..count -> pool] : \A i, j \in 1..count : i # j => sq[i] # sq[j]}

\* trade() line 565: the buy phase is entered when the cash balance exceeds
\* min_buy_amount + min_broker_cash_balance
BuyGateOpen(cash, c) == cash > c.min_buy_amount + c.min_broker_cash_balance

TraderQuiet ==
    /\ tcfg = [buy |-> FALSE, sell |-> FALSE, fnum |-> 1, fden |-> 1,
               min_buy_amount |-> 0, max_buy_amount |-> 0,
               min_broker_cash_balance |-> 0, max_position_value |-> 0,
               exchanges |-> <<>>]
    /\ tr = [pc |-> "off", next_run |-> "set", cash |-> 0, ledger |-> 0, fetched |-> 0,
             signal |-> [bars |-> 0, score |-> 0], gate |-> 0,
             held |-> <<>>, positions |-> <<>>, pi |-> 0, ei |-> 0, ui |-> 0,
             symbols |-> <<>>, si |-> 0, order |-> [place |-> FALSE, quantity |-> 0, amount |-> 0, price |-> 0],
             orders |-> <<>>, nodata |-> {}, failed |-> "none",
             steps |-> <<>>]

\* a trader whose next_run has come: Trader.__init__ has set next_run, and the
\* broker's constructor has read the ledger.  fetched is history: the number
\* of orders of the cycle that had been submitted when cash_balance was last
\* read from the broker; signal is what the analysis of the last candidate
\* gave; gate is the balance the gate of the buy phase has read.
TraderInit ==
    /\ tcfg \in TraderConfigs
    /\ \E l \in Ledgers, h \in Held :
          tr = [pc |-> "idle", next_run |-> "set", cash |-> l, ledger |-> l, fetched |-> 0,
             signal |-> [bars |-> 0, score |-> 0], gate |-> 0,
                held |-> h, positions |-> <<>>, pi |-> 0, ei |-> 0, ui |-> 0,
                symbols |-> <<>>, si |-> 0, order |-> [place |-> FALSE, quantity |-> 0, amount |-> 0, price |-> 0],
                orders |-> <<>>, nodata |-> {}, failed |-> "none",
             steps |-> <<>>]

\* lines 363 and 476: analysis needs at least 5 candlesticks
MinCandlesticks == 5

\* what get_candlesticks returns and patterns.analyze_candlesticks makes of
\* it: the number of candlesticks, and the sign of the average indication
BarCounts == {0, MinCandlesticks - 1, MinCandlesticks}
Scores == {-1, 0, 1}

\* lines 363-384: a position is sold on at least 5 candlesticks and an
\* average indication < 0
IsSellCandidate(bars, score) == bars >= MinCandlesticks /\ score # 0 /\ score < 0

\* lines 476-494: a symbol is bought on at least 5 candlesticks and an
\* average indication > 0
IsBuyCandidate(bars, score) == bars >= MinCandlesticks /\ score # 0 /\ score > 0

\* the loop index had it stayed on the candidate
AfterNoDataStays(index) == index

\* lines 352-356 and 467-469: continue, the loop takes the next candidate
AfterNoData(index) == index + 1

\* an exception of the named call leaves trade(): next_run stays None
TradeRaises(call) == tr' = [tr EXCEPT !.pc = "raised", !.failed = call]

\* a run that leaves next_run as it was
NextRunLeft(t) == t.next_run

\* line 535: self.next_run = None
NextRunCleared(t) == "none"

\* lines 535-538
TradeStart ==
    /\ tr.pc = "idle"
    /\ tr' = [tr EXCEPT !.pc = "market_refresh", !.next_run = NextRunCleared(tr)]
    /\ UNCHANGED <<tcfg, nonTraderVars>>

\* line 541: market.refresh()
MarketRefresh ==
    /\ tr.pc = "market_refresh"
    /\ \E ok \in BOOLEAN :
          IF ok
          THEN tr' = [tr EXCEPT !.pc = "broker_refresh",
                         !.steps = Append(@, "market.refresh")]
          ELSE TradeRaises("market.refresh")
    /\ UNCHANGED <<tcfg, nonTraderVars>>

\* every error of the first broker refresh is raised again
RefreshErrorIsCaughtNever(answer) == FALSE

\* lines 545-550: the HTTPError of the first broker refresh is caught when
\* its status is 401
RefreshErrorIsCaught(answer) == answer = "401"

\* lines 542-550: broker.refresh(log_ledger=True); an HTTP 401 ends the cycle
\* with next_run set, any other error leaves trade()
BrokerRefresh ==
    /\ tr.pc = "broker_refresh"
    /\ \E answer \in {"ok", "401", "error"} :
          IF answer = "ok"
          THEN tr' = [tr EXCEPT !.pc = "live_orders", !.cash = tr.ledger, !.fetched = Len(tr.orders),
                         !.steps = Append(@, "broker.refresh")]
          ELSE IF RefreshErrorIsCaught(answer)
          THEN tr' = [tr EXCEPT !.pc = "done", !.next_run = "set",
                         !.steps = @ \o <<"broker.refresh: HTTP " \o answer,
                                          "calculate_next_run">>]
          ELSE tr' = [tr EXCEPT !.pc = "raised",
                         !.failed = "broker.refresh at the start",
                         !.steps = Append(@, "broker.refresh: HTTP " \o answer)]
    /\ UNCHANGED <<tcfg, nonTraderVars>>

\* lines 553-555: get_live_orders() and cancel_stale_orders()
LiveOrders ==
    /\ tr.pc = "live_orders"
    /\ \E answer \in {"ok", "fetch fails", "cancel fails"} :
          CASE answer = "ok" ->
                  tr' = [tr EXCEPT !.pc = IF tcfg.sell THEN "sell_start" ELSE "buy_gate",
                            !.steps = @ \o <<"broker.get_live_orders",
                                             "broker.cancel_stale_orders">>]
            [] answer = "fetch fails" -> TradeRaises("broker.get_live_orders")
            [] OTHER ->
                  tr' = [tr EXCEPT !.pc = "raised",
                            !.failed = "broker.cancel_stale_orders",
                            !.steps = Append(@, "broker.get_live_orders")]
    /\ UNCHANGED <<tcfg, nonTraderVars>>

\* check_positions_for_sell_candidates, lines 318-324
SellStart ==
    /\ tr.pc = "sell_start"
    /\ \E ok \in BOOLEAN :
          LET kept == RemoveClosed(tr.held, tcfg.exchanges)
          IN  IF ~ok
              THEN TradeRaises("broker.get_positions")
              ELSE IF kept.raised
              THEN TradeRaises("exchange.is_open")
              ELSE tr' = [tr EXCEPT !.pc = "sell", !.pi = 1,
                             !.steps = Append(@, "sell evaluation"),
                             !.positions = RemoveNonConfigured(kept.positions,
                                                               tcfg.exchanges)]
    /\ UNCHANGED <<tcfg, nonTraderVars>>

\* lines 326-383: a position that is not sold: skipped by the profit check,
\* without candlesticks, with fewer than 5 of them, or with a score >= 0
SellSkip ==
    /\ tr.pc = "sell" /\ tr.pi <= Len(tr.positions)
    /\ tr' = [tr EXCEPT !.pi = @ + 1]
    /\ UNCHANGED <<tcfg, nonTraderVars>>

\* lines 346-356: get_candlesticks raises NoDataException for the position:
\* a warning is logged and the loop goes on
SellNoData ==
    /\ tr.pc = "sell" /\ tr.pi <= Len(tr.positions)
    /\ tr' = [tr EXCEPT !.pi = AfterNoData(@),
                        !.nodata = @ \cup {<<"SELL", tr.pi>>}]
    /\ UNCHANGED <<tcfg, nonTraderVars>>

\* lines 357-361: get_candlesticks raises another exception: it is logged
\* and the loop goes on
SellCandlesticksError ==
    /\ tr.pc = "sell" /\ tr.pi <= Len(tr.positions)
    /\ tr' = [tr EXCEPT !.pi = @ + 1]
    /\ UNCHANGED <<tcfg, nonTraderVars>>

\* lines 383-384 and place_market_sell_order: a score < 0.  The quote is
\* fetched outside the try block; the order is placed inside it.
SellOrder ==
    /\ tr.pc = "sell" /\ tr.pi <= Len(tr.positions)
    /\ LET p == tr.positions[tr.pi]
           NotP(x) == x.id # p.id
       IN  \E answer \in {"accepted", "failed", "noquote"},
              bars \in BarCounts, score \in Scores :
              /\ IsSellCandidate(bars, score)
              /\ CASE answer = "accepted" ->
                      tr' = [tr EXCEPT !.pi = @ + 1,
                                !.signal = [bars |-> bars, score |-> score],
                                !.ledger = @ + p.value,
                                !.held = SelectSeq(@, NotP),
                                !.orders = Append(@, [side |-> "SELL", name |-> p.name,
                                     id |-> p.id, idx |-> tr.pi, quantity |-> 1, amount |-> p.value,
                                     cash |-> tr.cash, accepted |-> TRUE,
                                     bars |-> bars, score |-> score])]
                [] answer = "failed" ->
                      tr' = [tr EXCEPT !.pi = @ + 1,
                                !.signal = [bars |-> bars, score |-> score],
                                !.orders = Append(@, [side |-> "SELL", name |-> p.name,
                                     id |-> p.id, idx |-> tr.pi, quantity |-> 1, amount |-> p.value,
                                     cash |-> tr.cash, accepted |-> FALSE,
                                     bars |-> bars, score |-> score])]
                [] OTHER -> TradeRaises("market.get_symbol_quote")
    /\ UNCHANGED <<tcfg, nonTraderVars>>

\* the sell loop has ended
SellEnd ==
    /\ tr.pc = "sell" /\ tr.pi > Len(tr.positions)
    /\ tr' = [tr EXCEPT !.pc = "buy_gate"]
    /\ UNCHANGED <<tcfg, nonTraderVars>>

\* trade() lines 562-577: the gate of the buy phase, and the ledger refresh
\* behind it
BuyGate ==
    /\ tr.pc = "buy_gate"
    /\ IF tcfg.buy /\ BuyGateOpen(tr.cash, tcfg)
       THEN \E ok \in BOOLEAN :
               IF ok
               THEN tr' = [tr EXCEPT !.pc = "symbols", !.gate = tr.cash,
                              !.cash = tr.ledger, !.fetched = Len(tr.orders),
                              !.ei = 1, !.ui = 0, !.symbols = <<>>,
                              !.steps = Append(@, "buy evaluation")]
               ELSE TradeRaises("broker.refresh before the buys")
       ELSE tr' = [tr EXCEPT !.pc = "finish"]
    /\ UNCHANGED <<tcfg, nonTraderVars>>

\* get_symbols, lines 243-261: the next configured exchange.  A closed
\* exchange is skipped; for an unknown one the error is logged and its
\* symbols are listed like those of an open one.
SymbolsExchange ==
    /\ tr.pc = "symbols" /\ tr.ui = 0 /\ tr.ei <= Len(tcfg.exchanges)
    /\ IF tcfg.exchanges[tr.ei].status = "closed"
       THEN tr' = [tr EXCEPT !.ei = @ + 1]
       ELSE \E ok \in BOOLEAN :
               IF ok THEN tr' = [tr EXCEPT !.ui = 1] ELSE TradeRaises("market.list_symbols")
    /\ UNCHANGED <<tcfg, nonTraderVars>>

\* get_symbols, lines 263-299: the next user symbol of the exchange
SymbolsUser ==
    /\ tr.pc = "symbols" /\ tr.ui > 0 /\ tr.ei <= Len(tcfg.exchanges)
    /\ LET e == tcfg.exchanges[tr.ei]
           names == {e.symbols[i].name : i \in DOMAIN e.symbols}
       IN  IF tr.ui > Len(e.symbols)
           THEN tr' = [tr EXCEPT !.ei = @ + 1, !.ui = 0]
           ELSE LET u == e.symbols[tr.ui]
                IN  IF u.random > 0
                    THEN IF e.haslist /\ e.listed # {}
                         THEN LET pool == e.listed \ names
                                  count == IF u.random > Cardinality(pool)
                                           THEN Cardinality(pool) ELSE u.random
                              IN  \E sample \in Samples(pool, count) :
                                     tr' = [tr EXCEPT !.ui = @ + 1,
                                               !.symbols = @ \o sample]
                         ELSE tr' = [tr EXCEPT !.ui = @ + 1]
                    ELSE IF e.haslist
                         THEN IF u.name \notin e.listed
                              THEN tr' = [tr EXCEPT !.ui = @ + 1]
                              ELSE tr' = [tr EXCEPT !.ui = @ + 1,
                                             !.symbols = Append(@, u.name)]
                         ELSE \E ok \in BOOLEAN :
                                 IF ok
                                 THEN tr' = [tr EXCEPT !.ui = @ + 1,
                                                !.symbols = Append(@, u.name)]
                                 ELSE TradeRaises("market.lookup_symbol")
    /\ UNCHANGED <<tcfg, nonTraderVars>>

\* check_market_for_potential_buy_candidates, lines 424-431: the open
\* positions are fetched once, before the symbols are looked at
BuyStart ==
    /\ tr.pc = "symbols" /\ tr.ei > Len(tcfg.exchanges)
    /\ \E ok \in BOOLEAN :
          IF ok
          THEN tr' = [tr EXCEPT !.pc = "buy", !.si = 1, !.positions = tr.held]
          ELSE TradeRaises("broker.get_positions")
    /\ UNCHANGED <<tcfg, nonTraderVars>>

\* lines 433-493: a symbol that is not bought: its positions exceed the
\* maximum, or it has no candlesticks, fewer than 5, or a score <= 0
BuySkip ==
    /\ tr.pc = "buy" /\ tr.si <= Len(tr.symbols)
    /\ tr' = [tr EXCEPT !.si = @ + 1]
    /\ UNCHANGED <<tcfg, nonTraderVars>>

\* lines 461-469: get_candlesticks raises NoDataException for a symbol whose
\* positions do not exceed the maximum: a warning is logged and the loop
\* goes on
BuyNoData ==
    /\ tr.pc = "buy" /\ tr.si <= Len(tr.symbols)
    /\ ~OverMaxPosition(tr.positions, tr.symbols[tr.si], tr.cash, tcfg)
    /\ tr' = [tr EXCEPT !.si = AfterNoData(@),
                        !.nodata = @ \cup {<<"BUY", tr.si>>}]
    /\ UNCHANGED <<tcfg, nonTraderVars>>

\* lines 470-472: get_candlesticks raises another exception: it is logged
\* and the loop goes on
BuyCandlesticksError ==
    /\ tr.pc = "buy" /\ tr.si <= Len(tr.symbols)
    /\ ~OverMaxPosition(tr.positions, tr.symbols[tr.si], tr.cash, tcfg)
    /\ tr' = [tr EXCEPT !.si = @ + 1]
    /\ UNCHANGED <<tcfg, nonTraderVars>>

\* lines 493-494 and place_market_buy_order up to line 174: a score > 0 for
\* a symbol whose positions do not exceed the maximum; the quote is fetched
\* and the order sized
BuySize ==
    /\ tr.pc = "buy" /\ tr.si <= Len(tr.symbols)
    /\ ~OverMaxPosition(tr.positions, tr.symbols[tr.si], tr.cash, tcfg)
    /\ \E quoted \in BOOLEAN, price \in Prices, bars \in BarCounts, score \in Scores :
          /\ IsBuyCandidate(bars, score)
          /\ IF quoted
             THEN tr' = [tr EXCEPT !.pc = "buy_place",
                            !.signal = [bars |-> bars, score |-> score],
                            !.order = SizedOrder(tr.cash, tcfg, price)]
             ELSE TradeRaises("market.get_symbol_quote")
    /\ UNCHANGED <<tcfg, nonTraderVars>>

\* place_market_buy_order, lines 176-191: the order, when one was arrived
\* at, is submitted; a failure is logged.  An accepted order takes its
\* amount from the broker's cash and opens a position of that value.
BuyPlace ==
    /\ tr.pc = "buy_place"
    /\ IF tr.order.place
       THEN \E accepted \in BOOLEAN :
               tr' = [tr EXCEPT !.pc = "buy_refresh",
                         !.ledger = IF accepted THEN @ - tr.order.amount ELSE @,
                         !.held = IF accepted
                                  THEN Append(@, [id |-> 100 + tr.si,
                                                  name |-> tr.symbols[tr.si],
                                                  value |-> tr.order.amount])
                                  ELSE @,
                         !.orders = Append(@, [side |-> "BUY",
                              name |-> tr.symbols[tr.si], id |-> 0, idx |-> tr.si,
                              quantity |-> tr.order.quantity,
                              amount |-> tr.order.amount,
                              cash |-> tr.cash, accepted |-> accepted,
                              bars |-> tr.signal.bars, score |-> tr.signal.score])]
       ELSE tr' = [tr EXCEPT !.pc = "buy_refresh"]
    /\ UNCHANGED <<tcfg, nonTraderVars>>

\* line 496: broker.refresh() after place_market_buy_order
BuyRefresh ==
    /\ tr.pc = "buy_refresh"
    /\ \E ok \in BOOLEAN :
          IF ok
          THEN tr' = [tr EXCEPT !.pc = "buy", !.si = @ + 1, !.cash = tr.ledger, !.fetched = Len(tr.orders)]
          ELSE TradeRaises("broker.refresh after a buy")
    /\ UNCHANGED <<tcfg, nonTraderVars>>

\* the buy loop has ended
BuyEnd ==
    /\ tr.pc = "buy" /\ tr.si > Len(tr.symbols)
    /\ tr' = [tr EXCEPT !.pc = "finish"]
    /\ UNCHANGED <<tcfg, nonTraderVars>>

\* line 580
TradeFinish ==
    /\ tr.pc = "finish"
    /\ tr' = [tr EXCEPT !.pc = "done", !.next_run = "set",
                        !.steps = Append(@, "calculate_next_run")]
    /\ UNCHANGED <<tcfg, nonTraderVars>>

TraderNext ==
    \/ TradeStart
    \/ MarketRefresh
    \/ BrokerRefresh
    \/ LiveOrders
    \/ SellStart
    \/ SellSkip
    \/ SellNoData
    \/ SellCandlesticksError
    \/ SellOrder
    \/ SellEnd
    \/ BuyGate
    \/ SymbolsExchange
    \/ SymbolsUser
    \/ BuyStart
    \/ BuySkip
    \/ BuyNoData
    \/ BuyCandlesticksError
    \/ BuySize
    \/ BuyPlace
    \/ BuyRefresh
    \/ BuyEnd
    \/ TradeFinish

-----------------------------------------------------------------------------
(* run(): the scheduling loop *)

\* next_run = None
NoRun == -1

\* the configured sleep_duration of a trader, in seconds
SleepDurations == {60, 120}

\* how long a trading run takes, in seconds
TradeDurations == {0, 2}

\* Trader.calculate_next_run at time t: now + sleep_duration, less the
\* minutes beyond a multiple of sleep_duration / 60 and the seconds, plus
\* interval_delay days.  sleep_duration / 60 is a float: minute % (d / 60)
\* minutes are (60 * minute) % d seconds.
CalculateNextRun(t, trader) ==
    LET next == t + trader.sleep_duration
        minute == (next \div 60) % 60
        second == next % 60
    IN  next - (((minute * 60) % trader.sleep_duration) + second)
            + trader.interval_delay * SecondsPerDay

\* Trader.__init__ at time t
BuiltTrader(t, sd) ==
    [sleep_duration |-> sd, interval_delay |-> 0, next_run |-> t,
     trades |-> 0, raised |-> FALSE]

\* run() line 65: calculate_next_run() is called and its result dropped
AfterException(t, trader) == NoRun

\* the next_run of a rebuilt trader had line 49 not been there: the time
\* Trader.__init__ set it to
RebuiltNextRunNow(t, trader) == t

\* run() line 49: trader.next_run = trader.calculate_next_run()
RebuiltNextRun(t, trader) == CalculateNextRun(t, trader)

RunQuiet ==
    rn = [pc |-> "off", clock |-> 0, idx |-> 0, traders |-> <<>>,
          rebuilt |-> FALSE, before |-> <<>>, failed |-> "none"]

\* run() lines 25-36
RunInit ==
    \E sds \in [1..NTraders -> SleepDurations] :
        rn = [pc |-> "tick", clock |-> 0, idx |-> 0,
              traders |-> [i \in 1..NTraders |-> BuiltTrader(0, sds[i])],
              rebuilt |-> FALSE,
              before |-> [i \in 1..NTraders |-> BuiltTrader(0, sds[i])],
              failed |-> "none"]

\* lines 41-50, the configuration as it was: the traders are kept
RunTickSame ==
    /\ rn.pc = "tick"
    /\ rn' = [rn EXCEPT !.pc = "loop", !.idx = 1, !.rebuilt = FALSE]
    /\ UNCHANGED nonRunVars

\* lines 41-50, the traders' configuration has changed: they are built anew
\* and their next_run is calculated
RunTickChanged ==
    /\ rn.pc = "tick"
    /\ \E sds \in [1..NTraders -> SleepDurations] :
          rn' = [rn EXCEPT !.pc = "loop", !.idx = 1, !.rebuilt = TRUE,
                    !.traders = [i \in 1..NTraders |->
                        [BuiltTrader(rn.clock, sds[i]) EXCEPT !.next_run =
                            RebuiltNextRun(rn.clock, BuiltTrader(rn.clock, sds[i]))]]]
    /\ UNCHANGED nonRunVars

\* the calls of lines 41-50, which are in no try block: config.refresh()
\* reads and parses the file, set_log_level(level) calls level.upper() on
\* the configured level, which is None when none is configured, and
\* _init_traders builds the brokers of a changed configuration
TickCalls == {"config.refresh", "set_log_level", "_init_traders"}

\* lines 41-50: one of these calls raises; nothing catches it, and run() ends
RunTickRaises ==
    /\ rn.pc = "tick"
    /\ \E call \in TickCalls : rn' = [rn EXCEPT !.pc = "dead", !.failed = call]
    /\ UNCHANGED nonRunVars

\* lines 54-55: the trader is not due
RunSkip ==
    /\ rn.pc = "loop" /\ rn.idx <= Len(rn.traders)
    /\ LET t == rn.traders[rn.idx]
       IN  t.next_run = NoRun \/ rn.clock < t.next_run
    /\ rn' = [rn EXCEPT !.idx = @ + 1]
    /\ UNCHANGED nonRunVars

\* the sleeps of a request: time.sleep(sleep_duration) of Client.request and
\* the rate limit cooldown of SaxoClient.request
RequestSleeps == {SleepDuration, RateLimitSleep}

\* line 54: the trader is due
IsDue(t, clock) == t.next_run # NoRun /\ clock >= t.next_run

\* lines 58-59: the trader is due and trade() is called; a request of the
\* call sleeps.  time.sleep is called in the thread of run(), the only one:
\* the state reached is the one the sleep ends in, trade() has set next_run
\* to None (trader.py line 535) and the loop is where it was.  The model
\* lets one request of a trading run sleep.
RunRequestSleeps ==
    /\ rn.pc = "loop" /\ rn.idx <= Len(rn.traders)
    /\ IsDue(rn.traders[rn.idx], rn.clock)
    /\ \E s \in RequestSleeps :
          /\ rn.clock + s <= MaxClock
          /\ rn' = [rn EXCEPT !.pc = "asleep", !.clock = @ + s,
                              !.traders[rn.idx].next_run = NoRun]
    /\ UNCHANGED nonRunVars

\* trade() can return or raise when it is called for a due trader, or after
\* the sleep of one of its requests
TradeCanEnd(t) ==
    \/ rn.pc = "loop" /\ IsDue(t, rn.clock)
    \/ rn.pc = "asleep"

\* lines 58-62: the trader is due and trade() returns: it has set next_run
\* (trader.py lines 548 and 580)
RunTradeReturns ==
    /\ rn.pc \in {"loop", "asleep"} /\ rn.idx <= Len(rn.traders)
    /\ LET t == rn.traders[rn.idx]
       IN  /\ TradeCanEnd(t)
           /\ \E d \in TradeDurations :
                 rn' = [rn EXCEPT !.pc = "loop", !.idx = @ + 1, !.clock = @ + d,
                           !.traders[rn.idx] =
                               [t EXCEPT !.trades = @ + 1, !.raised = FALSE,
                                         !.next_run = CalculateNextRun(rn.clock + d, t)]]
    /\ UNCHANGED nonRunVars

\* lines 58-65: the trader is due and trade() raises, after it has set
\* next_run to None (trader.py line 535)
RunTradeRaises ==
    /\ rn.pc \in {"loop", "asleep"} /\ rn.idx <= Len(rn.traders)
    /\ LET t == rn.traders[rn.idx]
       IN  /\ TradeCanEnd(t)
           /\ \E d \in TradeDurations :
                 rn' = [rn EXCEPT !.pc = "loop", !.idx = @ + 1, !.clock = @ + d,
                           !.traders[rn.idx] =
                               [t EXCEPT !.trades = @ + 1, !.raised = TRUE,
                                         !.next_run = AfterException(rn.clock + d, t)]]
    /\ UNCHANGED nonRunVars

\* line 66: time.sleep(1)
RunSleep ==
    /\ rn.pc = "loop" /\ rn.idx > Len(rn.traders)
    /\ rn.clock < MaxClock
    /\ rn' = [rn EXCEPT !.pc = "tick", !.clock = @ + 1, !.before = rn.traders]
    /\ UNCHANGED nonRunVars

RunNext ==
    \/ RunTickSame
    \/ RunTickChanged
    \/ RunTickRaises
    \/ RunSkip
    \/ RunRequestSleeps
    \/ RunTradeReturns
    \/ RunTradeRaises
    \/ RunSleep

-----------------------------------------------------------------------------
(* Brokers: cancel_stale_orders *)

Brokers == {"ibkr", "saxo"}

\* what a live order's status attribute says (IBKR status = "Active", Saxo
\* Status = "Working")
OrderIsActive(order) == order.active

\* the times a call starts at, and the times orders were placed at
CancelTimes == {1000}
PlacedAt == {879, 880, 881}

\* order_lifetime: 120 is the default
Lifetimes == {0, 120}

\* how long a DELETE request takes, in seconds
CancelDurations == {0, 1}

\* the live orders: distinct orders, the k-th with id k.  stamped: the id of
\* an IBKR order ends in the time it was placed at (an OrderTime of Saxo
\* always parses)
OrderLists(broker) ==
    UNION { [1..n -> [active : BOOLEAN, placed : PlacedAt,
                      stamped : IF broker = "ibkr" THEN BOOLEAN ELSE {TRUE}]] :
            n \in 0..MaxOrders }

\* the staleness test with >= in place of >: an order as old as
\* order_lifetime would be stale as well
IsStaleInclusive(order, t, lifetime) == t - order.placed >= lifetime

\* ibkr.py lines 240-242, saxo.py lines 189-191:
\* order_age.total_seconds() > order_lifetime
IsStale(order, t, lifetime) == t - order.placed > lifetime

CancelInit ==
    \E b \in Brokers, l \in Lifetimes, given \in BOOLEAN :
        \E live \in OrderLists(b), t \in CancelTimes :
            co = [pc |-> "start", broker |-> b, lifetime |-> l, given |-> given,
                  live |-> live, orders |-> <<>>, i |-> 0, clock |-> t,
                  at |-> <<>>, fetches |-> 0, requests |-> <<>>,
                  cancelled_orders |-> <<>>]

\* ibkr.py lines 235-237, saxo.py lines 184-186: the list that was passed, or
\* the one get_live_orders() returns
CancelOrdersGiven ==
    /\ co.pc = "start" /\ co.given
    /\ co' = [co EXCEPT !.pc = "loop", !.i = 1, !.orders = co.live]
    /\ UNCHANGED nonCancelVars

CancelOrdersFetched ==
    /\ co.pc = "start" /\ ~co.given
    /\ \E ok \in BOOLEAN :
          IF ok
          THEN co' = [co EXCEPT !.pc = "loop", !.i = 1, !.orders = co.live,
                         !.fetches = @ + 1]
          ELSE co' = [co EXCEPT !.pc = "raised", !.fetches = @ + 1]
    /\ UNCHANGED nonCancelVars

\* IBKR.cancel_stale_orders lines 238-243: the next order.  An order that is
\* not active is passed over; the age of an active one is read off its id,
\* and a stale order is cancelled by a request of its own.
IbkrExamine ==
    /\ co.pc = "loop" /\ co.broker = "ibkr" /\ co.i <= Len(co.orders)
    /\ LET order == co.orders[co.i]
           seen == [co EXCEPT !.i = @ + 1, !.at = Append(@, co.clock)]
       IN  IF ~OrderIsActive(order)
           THEN co' = seen
           ELSE IF ~order.stamped
           THEN co' = [seen EXCEPT !.pc = "raised"]
           ELSE IF IsStale(order, co.clock, co.lifetime)
           THEN \E ok \in BOOLEAN, d \in CancelDurations :
                   IF ok
                   THEN co' = [seen EXCEPT !.clock = @ + d,
                                  !.requests = Append(@, {co.i}),
                                  !.cancelled_orders = Append(@, co.i)]
                   ELSE co' = [seen EXCEPT !.pc = "raised", !.clock = @ + d,
                                  !.requests = Append(@, {co.i})]
           ELSE co' = seen
    /\ UNCHANGED nonCancelVars

\* IBKR.cancel_stale_orders line 244
IbkrReturn ==
    /\ co.pc = "loop" /\ co.broker = "ibkr" /\ co.i > Len(co.orders)
    /\ co' = [co EXCEPT !.pc = "returned"]
    /\ UNCHANGED nonCancelVars

\* SaxoBroker.cancel_stale_orders lines 187-195: the next order; a stale
\* active order is put on the list of orders to cancel
SaxoExamine ==
    /\ co.pc = "loop" /\ co.broker = "saxo" /\ co.i <= Len(co.orders)
    /\ LET order == co.orders[co.i]
           seen == [co EXCEPT !.i = @ + 1, !.at = Append(@, co.clock)]
       IN  IF OrderIsActive(order) /\ IsStale(order, co.clock, co.lifetime)
           THEN co' = [seen EXCEPT !.cancelled_orders = Append(@, co.i)]
           ELSE co' = seen
    /\ UNCHANGED nonCancelVars

\* SaxoBroker.cancel_stale_orders lines 196-198: one request cancels the
\* listed orders, if there are any
SaxoCancel ==
    /\ co.pc = "loop" /\ co.broker = "saxo" /\ co.i > Len(co.orders)
    /\ IF co.cancelled_orders # <<>>
       THEN \E ok \in BOOLEAN, d \in CancelDurations :
               co' = [co EXCEPT !.pc = IF ok THEN "returned" ELSE "raised",
                         !.clock = @ + d,
                         !.requests = Append(@, {co.cancelled_orders[k] :
                                                  k \in DOMAIN co.cancelled_orders})]
       ELSE co' = [co EXCEPT !.pc = "returned"]
    /\ UNCHANGED nonCancelVars

CancelNext ==
    \/ CancelOrdersGiven
    \/ CancelOrdersFetched
    \/ IbkrExamine
    \/ IbkrReturn
    \/ SaxoExamine
    \/ SaxoCancel

CancelQuiet ==
    co = [pc |-> "off", broker |-> "ibkr", lifetime |-> 0, given |-> TRUE,
          live |-> <<>>, orders |-> <<>>, i |-> 0, clock |-> 0,
          at |-> <<>>, fetches |-> 0, requests |-> <<>>,
          cancelled_orders |-> <<>>]

-----------------------------------------------------------------------------
(* Brokers: get_positions *)

\* the quantity of a vendor's position entry
Quantities == {0, 5}

\* the number of entries on a page that has any
PageLengths == {1, 2}

\* a vendor's result pages: the i-th entry of page p, in a symbol and with a
\* quantity
ResultPages ==
    UNION { { [p \in 1..n |-> [i \in 1..Len(qs[p]) |->
                  [page |-> p, index |-> i, symbol |-> "A", quantity |-> qs[p][i]]]] :
              qs \in [1..n -> UNION {[1..l -> Quantities] : l \in PageLengths}] } :
            n \in 0..MaxPages }

\* ibkr.py lines 288-290, saxo.py lines 221-223: an entry with quantity 0 is
\* passed over
NonZero(entries) ==
    LET Kept(e) == e.quantity # 0
    IN  SelectSeq(entries, Kept)

\* a pager that goes on while the vendor's page has an entry
IbkrHasNextOnEntries(entries, positions) == Len(entries) > 0

\* IBKR.get_positions line 303: the next page is asked for when this page
\* gave at least one position
IbkrHasNext(entries, positions) == Len(positions) > 0

PositionsInit ==
    \E b \in Brokers, pages \in ResultPages :
        gp = [pc |-> "page", broker |-> b, pages |-> pages, page_id |-> 1,
              positions |-> <<>>, requests |-> 0]

\* IBKR.get_positions lines 270-304, one activation: the cache is invalidated
\* on the first page, the page is fetched (the vendor answers a page past
\* the last with an empty list), its non-zero entries become positions, and
\* the next page is asked for if there were any
IbkrPage ==
    /\ gp.pc = "page" /\ gp.broker = "ibkr"
    /\ \E ok \in BOOLEAN :
          IF ok
          THEN LET entries == IF gp.page_id <= Len(gp.pages)
                              THEN gp.pages[gp.page_id] ELSE <<>>
                   positions == NonZero(entries)
               IN  gp' = [gp EXCEPT !.requests = @ + 1,
                             !.positions = @ \o positions,
                             !.page_id = @ + 1,
                             !.pc = IF IbkrHasNext(entries, positions)
                                    THEN "page" ELSE "returned"]
          ELSE gp' = [gp EXCEPT !.pc = "raised", !.requests = @ + 1]
    /\ UNCHANGED nonPositionsVars

\* SaxoBroker.get_positions lines 210-231: a page is fetched, the first one
\* or the one __next names; its non-zero entries become positions; a page
\* that is not the last carries __next
SaxoPage ==
    /\ gp.pc = "page" /\ gp.broker = "saxo"
    /\ \E ok \in BOOLEAN :
          IF ok
          THEN LET entries == IF gp.page_id <= Len(gp.pages)
                              THEN gp.pages[gp.page_id] ELSE <<>>
               IN  gp' = [gp EXCEPT !.requests = @ + 1,
                             !.positions = @ \o NonZero(entries),
                             !.page_id = @ + 1,
                             !.pc = IF gp.page_id < Len(gp.pages)
                                    THEN "page" ELSE "returned"]
          ELSE gp' = [gp EXCEPT !.pc = "raised", !.requests = @ + 1]
    /\ UNCHANGED nonPositionsVars

PositionsNext ==
    \/ IbkrPage
    \/ SaxoPage

PositionsQuiet ==
    gp = [pc |-> "off", broker |-> "ibkr", pages |-> <<>>, page_id |-> 0,
          positions |-> <<>>, requests |-> 0]

-----------------------------------------------------------------------------
(* Brokers: IBKR.place_order and the vendor's confirmation prompts *)

\* the texts of a prompt, by what place_order tests them for: a text that
\* starts with "You are trying to submit an order without having market data
\* for this instrument", one that holds "<h4>Confirm Mandatory Cap
\* Price</h4>", and any other
Texts == {"no_market_data", "cap_price", "other"}

\* the number of texts in the content of a prompt
ContentLengths == {0, 1, 2}

\* the contents a prompt can have
Contents == UNION {[1..l -> Texts] : l \in ContentLengths}

\* the prompts the vendor answers an order with: the k-th has id k
PromptList(cs) == [k \in DOMAIN cs |-> [id |-> k, content |-> cs[k]]]

\* lines 428-434
IsMissingMarketData(content) ==
    \E j \in DOMAIN content : content[j] = "no_market_data"

\* lines 440-443
IsCapPrice(content) ==
    \E j \in DOMAIN content : content[j] = "cap_price"

\* the message list with no message taken out
PopKept(messages, i) == messages

\* messages.pop(i)
Pop(messages, i) ==
    [k \in 1..(Len(messages) - 1) |-> IF k < i THEN messages[k] ELSE messages[k + 1]]

OrderQuiet ==
    po = [pc |-> "off", prompts |-> <<>>, messages |-> <<>>, i |-> 0,
          replies |-> <<>>, logged |-> FALSE]

OrderInit ==
    \E n \in 0..MaxPrompts : \E cs \in [1..n -> Contents] :
        po = [pc |-> "submit", prompts |-> PromptList(cs), messages |-> <<>>,
              i |-> 0, replies |-> <<>>, logged |-> FALSE]

\* lines 360-423: the contract is looked up and the order posted; the
\* vendor's answer becomes the order's message list
OrderSubmit ==
    /\ po.pc = "submit"
    /\ \E ok \in BOOLEAN :
          IF ok
          THEN po' = [po EXCEPT !.pc = "loop", !.messages = po.prompts,
                         !.i = Len(po.prompts)]
          ELSE po' = [po EXCEPT !.pc = "raised"]
    /\ UNCHANGED nonOrderVars

\* lines 425-446: the next message, from the last to the first.  One without
\* content is passed over; one of a recognized type is replied to
\* (_send_order_reply) and taken out of the list; any other stays.
OrderMessage ==
    /\ po.pc = "loop" /\ po.i >= 1
    /\ LET message == po.prompts[po.i]
       IN  IF message.content = <<>>
           THEN po' = [po EXCEPT !.i = @ - 1]
           ELSE IF IsMissingMarketData(message.content) \/ IsCapPrice(message.content)
           THEN \E ok \in BOOLEAN :
                   IF ok
                   THEN po' = [po EXCEPT !.i = @ - 1,
                                  !.replies = Append(@, message.id),
                                  !.messages = Pop(@, po.i)]
                   ELSE po' = [po EXCEPT !.pc = "raised",
                                  !.replies = Append(@, message.id)]
           ELSE po' = [po EXCEPT !.i = @ - 1]
    /\ UNCHANGED nonOrderVars

\* lines 448-452: the messages left are logged as an error, and the order
\* is returned
OrderReturn ==
    /\ po.pc = "loop" /\ po.i = 0
    /\ po' = [po EXCEPT !.pc = "returned", !.logged = (po.messages # <<>>)]
    /\ UNCHANGED nonOrderVars

OrderNext ==
    \/ OrderSubmit
    \/ OrderMessage
    \/ OrderReturn

-----------------------------------------------------------------------------
(* SaxoClient.authenticate called from several request paths on one client *)

\* authenticate() holds no lock and the client keeps one _token: a caller
\* is between two of its statements whenever another caller runs.
\* pc of a caller: "idle", "refresh" (_validate_tokens has decided to call
\* _refresh_token), "inflight" (the POST of _refresh_token is sent),
\* "authorize" (authenticate() has decided on _authenticate_oauth2),
\* "authorizing", "returned", "raised".
Callers == 1..NCallers

\* the clock at which the callers arrive: the credential was stamped at 0
SharedClocks == {1000, 1200, 2400, 3600}

\* what the token endpoint answers to the POST of _refresh_token
RefreshAnswers == {"ok", "errbody", "http_error"}

NewCaller == [pc |-> "idle", sent |-> 0, got |-> 0]

SharedQuiet ==
    sc = [now |-> 0, token |-> NewToken(1, 0), issued |-> 1, posts |-> 0,
          callers |-> [c \in Callers |-> NewCaller]]

SharedInit ==
    \E t \in SharedClocks :
        sc = [now |-> t, token |-> NewToken(1, 0), issued |-> 1, posts |-> 0,
              callers |-> [c \in Callers |-> NewCaller]]

\* authenticate(), lines 121-130, with _validate_tokens up to its decision
SharedCall(c) ==
    /\ sc.callers[c].pc = "idle"
    /\ LET d == AuthDecision(sc.token, sc.now)
       IN  sc' = [sc EXCEPT
                   !.callers[c].pc =
                       CASE d = "valid" -> "returned"
                         [] d = "refresh" -> "refresh"
                         [] d = "interactive" -> "authorize"
                         [] OTHER -> "raised",
                   !.callers[c].got = IF d = "valid" THEN sc.token.id ELSE 0]
    /\ UNCHANGED nonSharedVars

\* _refresh_token, up to the POST: the refresh token is read from _token as
\* it is now, and a _token without one raises KeyError
SharedPost(c) ==
    /\ sc.callers[c].pc = "refresh"
    /\ IF sc.token.kind = "cred"
       THEN sc' = [sc EXCEPT !.callers[c].pc = "inflight",
                             !.callers[c].sent = sc.token.id,
                             !.posts = @ + 1]
       ELSE sc' = [sc EXCEPT !.callers[c].pc = "raised"]
    /\ UNCHANGED nonSharedVars

\* _refresh_token from the answer on: the body becomes _token, is stamped
\* and put in the header; _validate_tokens returns True and authenticate()
\* returns
SharedReply(c) ==
    /\ sc.callers[c].pc = "inflight"
    /\ \E answer \in RefreshAnswers :
          CASE answer = "ok" ->
                  sc' = [sc EXCEPT !.token = NewToken(sc.issued + 1, sc.now),
                                   !.issued = @ + 1,
                                   !.callers[c].pc = "returned",
                                   !.callers[c].got = sc.issued + 1]
            [] answer = "errbody" ->
                  sc' = [sc EXCEPT !.token = ErrorBodyToken(sc.now),
                                   !.callers[c].pc = "returned"]
            [] OTHER ->
                  sc' = [sc EXCEPT !.callers[c].pc = "raised"]
    /\ UNCHANGED nonSharedVars

\* authenticate(), line 132: _authenticate_oauth2 is entered
SharedAuthorize(c) ==
    /\ sc.callers[c].pc = "authorize"
    /\ sc' = [sc EXCEPT !.callers[c].pc = "authorizing"]
    /\ UNCHANGED nonSharedVars

\* authenticate(), lines 132-139: the grant is kept and stored, or the
\* error of the authorization leaves authenticate()
SharedAuthorized(c) ==
    /\ sc.callers[c].pc = "authorizing"
    /\ \E outcome \in InteractiveOutcomes :
          IF outcome = "granted"
          THEN sc' = [sc EXCEPT !.token = NewToken(sc.issued + 1, sc.now),
                                !.issued = @ + 1,
                                !.callers[c].pc = "returned",
                                !.callers[c].got = sc.issued + 1]
          ELSE sc' = [sc EXCEPT !.callers[c].pc = "raised"]
    /\ UNCHANGED nonSharedVars

SharedNext ==
    \E c \in Callers :
        \/ SharedCall(c)
        \/ SharedPost(c)
        \/ SharedReply(c)
        \/ SharedAuthorize(c)
        \/ SharedAuthorized(c)

-----------------------------------------------------------------------------
(* Brokers: place_order and the key of the order it submits *)

\* the times place_order is called at
PlaceTimes == {1000, 1001}

\* why request() sends the order again, and what it sleeps before it does:
\* after a 401 it reauthenticates, after a rate limit answer it sleeps the
\* cooldown, after a retryable status it sleeps sleep_duration
ResendSleep ==
    [reauthenticated |-> 0, rate_limit |-> RateLimitSleep, retry |-> SleepDuration]

\* f"ztock_{side}_{symbol.name}_{int(datetime.datetime.now().timestamp())}"
OrderKey(side, t) == [side |-> side, timestamp |-> t]

\* the key of a submission had the payload been built again for it
SubmittedKeyRebuilt(data, t) == OrderKey(data.side, t)

\* request() passes the json argument it was given on to every call of
\* session.post: the key of a submission is the key in data
SubmittedKey(data, t) == data

KeyQuiet ==
    ks = [pc |-> "off", broker |-> "ibkr", clock |-> 0,
          data |-> OrderKey("BUY", 0), sent |-> <<>>, slept |-> 0]

KeyInit ==
    \E broker \in Brokers, t \in PlaceTimes :
        ks = [pc |-> "place", broker |-> broker, clock |-> t,
              data |-> OrderKey("BUY", 0), sent |-> <<>>, slept |-> 0]

\* place_order up to the call of request(): the key is made from the side
\* and the clock and put in the payload (cOID of IBKR, ExternalReference of
\* Saxo)
KeyPlace ==
    /\ ks.pc = "place"
    /\ \E side \in {"BUY", "SELL"} :
          ks' = [ks EXCEPT !.pc = "send", !.data = OrderKey(side, ks.clock)]
    /\ UNCHANGED nonKeyVars

\* session.post of the first submission
KeySend ==
    /\ ks.pc = "send" /\ ks.sent = <<>>
    /\ ks' = [ks EXCEPT !.sent = <<SubmittedKey(ks.data, ks.clock)>>]
    /\ UNCHANGED nonKeyVars

\* request() sends the order again: SaxoClient.request after a 401 or a rate
\* limit answer, Client.request after a retryable status.  IBKR's client is
\* the base client, which knows the retry only.
KeyResend ==
    /\ ks.pc = "send" /\ ks.sent # <<>> /\ Len(ks.sent) <= MaxResend
    /\ \E why \in (IF ks.broker = "saxo" THEN DOMAIN ResendSleep ELSE {"retry"}) :
          ks' = [ks EXCEPT !.clock = @ + ResendSleep[why],
                           !.slept = @ + ResendSleep[why],
                           !.sent = Append(@, SubmittedKey(ks.data, ks.clock + ResendSleep[why]))]
    /\ UNCHANGED nonKeyVars

\* request() returns the answer or raises: place_order ends
KeyEnd ==
    /\ ks.pc = "send" /\ ks.sent # <<>>
    /\ ks' = [ks EXCEPT !.pc = "done"]
    /\ UNCHANGED nonKeyVars

KeyNext ==
    \/ KeyPlace
    \/ KeySend
    \/ KeyResend
    \/ KeyEnd

-----------------------------------------------------------------------------
(* SaxoDB: store_token and get_token on the token table *)

\* SCHEMA: the names of the fields of the token table, in their order
FieldNames ==
    <<"access_token", "token_type", "expires_in", "refresh_token",
      "refresh_token_expires_in", "base_uri", "timestamp">>

\* the value None
None == [none |-> TRUE]

\* a datetime, and what datetime.timestamp() and datetime.fromtimestamp()
\* make of it: the REAL of the table counts the seconds, with the
\* microseconds as its fraction
DateTime(s, us) == [second |-> s, microsecond |-> us]

Timestamp(dt) == dt.second * 1000000 + dt.microsecond

FromTimestamp(x) == DateTime(x \div 1000000, x % 1000000)

\* the credentials store_token is called with: the dict of a token grant,
\* stamped, with or without the keys the vendor may add or leave out
Grant(n, dt) ==
    [k \in {"access_token", "token_type", "expires_in", "refresh_token",
            "refresh_token_expires_in", "timestamp"} |->
        CASE k = "access_token" -> n
          [] k = "refresh_token" -> n
          [] k = "token_type" -> "Bearer"
          [] k = "expires_in" -> ExpiresIn
          [] k = "refresh_token_expires_in" -> RefreshTokenExpiresIn
          [] OTHER -> dt]

WithKey(d, key, value) ==
    [k \in DOMAIN d \cup {key} |-> IF k = key THEN value ELSE d[k]]

StoredCredentials ==
    UNION { { Grant(n, dt),
              WithKey(Grant(n, dt), "base_uri", None),
              WithKey(WithKey(Grant(n, dt), "base_uri", None),
                      "authentication_code", "de300648") } :
            <<n, dt>> \in {1, 2} \X {DateTime(1000, 0), DateTime(1193, 755811)} }

\* store_token line 55 and prepare_row: token.get(field, None) for each
\* field of the schema, a datetime as its timestamp
TokenRow(tok) ==
    [i \in DOMAIN FieldNames |->
        IF FieldNames[i] \in DOMAIN tok
        THEN IF FieldNames[i] = "timestamp" THEN Timestamp(tok[FieldNames[i]])
                                            ELSE tok[FieldNames[i]]
        ELSE None]

\* truncate() with the DELETE left out
TruncateKept(table) == table

\* Database.truncate: DELETE FROM token, committed
Truncate(table) == <<>>

\* Database.insert of one row, committed
Insert(table, row) == Append(table, row)

\* SaxoDB.get_token: {} for an empty table, else the first row as a dict by
\* field name, the timestamp as a datetime
FetchedToken(table) ==
    IF Len(table) = 0 THEN <<>>
    ELSE [k \in {FieldNames[i] : i \in DOMAIN FieldNames} |->
             LET i == CHOOSE j \in DOMAIN FieldNames : FieldNames[j] = k
             IN  IF k = "timestamp" THEN FromTimestamp(table[1][i]) ELSE table[1][i]]

\* pc: "idle", "truncate" and "insert" (inside store_token, before the
\* statement of that name), "crashed" (the process has ended inside
\* store_token; the table is what was committed).  last is the credential
\* of the last completed store_token and token the argument of the last
\* call, both the grant below before the first one.
StoreQuiet ==
    tb = [pc |-> "off", table |-> <<>>, token |-> Grant(1, DateTime(0, 0)),
          completed |-> 0, last |-> Grant(1, DateTime(0, 0)), got |-> <<>>,
          fetched |-> FALSE]

StoreInit ==
    tb = [pc |-> "idle", table |-> <<>>, token |-> Grant(1, DateTime(0, 0)),
          completed |-> 0, last |-> Grant(1, DateTime(0, 0)), got |-> <<>>,
          fetched |-> FALSE]

\* store_token is called
StoreCall ==
    /\ tb.pc = "idle" /\ tb.completed < MaxStores
    /\ \E tok \in StoredCredentials :
          tb' = [tb EXCEPT !.pc = "truncate", !.token = tok, !.fetched = FALSE,
                           !.got = <<>>]
    /\ UNCHANGED nonStoreVars

\* store_token line 56
StoreTruncate ==
    /\ tb.pc = "truncate"
    /\ tb' = [tb EXCEPT !.pc = "insert", !.table = Truncate(tb.table)]
    /\ UNCHANGED nonStoreVars

\* store_token lines 57-58
StoreInsert ==
    /\ tb.pc = "insert"
    /\ tb' = [tb EXCEPT !.pc = "idle", !.table = Insert(tb.table, TokenRow(tb.token)),
                        !.completed = @ + 1, !.last = tb.token]
    /\ UNCHANGED nonStoreVars

\* the process ends inside store_token
StoreCrash ==
    /\ tb.pc \in {"truncate", "insert"}
    /\ tb' = [tb EXCEPT !.pc = "crashed"]
    /\ UNCHANGED nonStoreVars

\* get_token is called
StoreGet ==
    /\ tb.pc = "idle" /\ ~tb.fetched
    /\ tb' = [tb EXCEPT !.got = FetchedToken(tb.table), !.fetched = TRUE]
    /\ UNCHANGED nonStoreVars

StoreNext ==
    \/ StoreCall
    \/ StoreTruncate
    \/ StoreInsert
    \/ StoreCrash
    \/ StoreGet

-----------------------------------------------------------------------------
(* Trader.calculate_next_run, one call *)

\* the times of the call, in seconds: hours, minutes and seconds
CallTimes ==
    { 3600 * h + 60 * mi + s :
        <<h, mi, s>> \in {0, 1, 5} \X {0, 1, 7, 59} \X {0, 10, 59} }

\* the configured sleep_duration, in seconds, and the interval_delay of the
\* market vendor, in days
ConfiguredDurations == {30, 60, 90, 120, 420, 3600, 7200}

IntervalDelays == {0, 1}

AlignQuiet ==
    nr = [pc |-> "off", now |-> 0, sleep_duration |-> 60, interval_delay |-> 0,
          next_run |-> 0]

AlignInit ==
    \E t \in CallTimes, d \in ConfiguredDurations, i \in IntervalDelays :
        nr = [pc |-> "call", now |-> t, sleep_duration |-> d, interval_delay |-> i,
              next_run |-> 0]

AlignCall ==
    /\ nr.pc = "call"
    /\ nr' = [nr EXCEPT !.pc = "done", !.next_run = CalculateNextRun(nr.now, nr)]
    /\ UNCHANGED nonAlignVars

AlignNext == AlignCall

-----------------------------------------------------------------------------
(* Trader.check_positions_for_sell_candidates: one position *)

\* Broker.minimum_order_fee of IBKR and of SaxoBroker
MinimumOrderFee == [ibkr |-> 1, saxo |-> 7]

\* the P&L and the market value of the position, and the configured
\* min_profit_fraction in hundredths
Pnls == {-50, 0, 10, 100}

MarketValues == {100, 1000}

ProfitFractions == {0, 5}

\* what the candlesticks of the position give: none returned, the fetch
\* fails, fewer than five, no pattern, a positive or a negative indication
CandlestickResults == {"no_data", "error", "few", "no_pattern", "positive", "negative"}

\* lines 332-334, in hundredths: market_value * min_profit_fraction plus
\* twice the minimum order fee
MinProfit(p) == p.market_value * p.fraction + MinimumOrderFee[p.broker] * 2 * 100

\* line 335: position.pnl and position.pnl < min_profit
IsBelowMinProfit(p) == p.pnl # 0 /\ p.pnl * 100 < MinProfit(p)

ProfitQuiet ==
    pf = [pc |-> "off", broker |-> "ibkr", enabled |-> FALSE, fraction |-> 0,
          pnl |-> 0, market_value |-> 0, fetched |-> FALSE, sold |-> FALSE]

ProfitInit ==
    \E broker \in Brokers, enabled \in BOOLEAN, fraction \in ProfitFractions,
       pnl \in Pnls, value \in MarketValues :
        pf = [pc |-> "check", broker |-> broker, enabled |-> enabled,
              fraction |-> fraction, pnl |-> pnl, market_value |-> value,
              fetched |-> FALSE, sold |-> FALSE]

\* lines 327-345: the profit check, when it is enabled
ProfitCheck ==
    /\ pf.pc = "check"
    /\ pf' = [pf EXCEPT !.pc = IF pf.enabled /\ IsBelowMinProfit(pf)
                               THEN "skipped" ELSE "candlesticks"]
    /\ UNCHANGED nonProfitVars

\* lines 347-380: the candlesticks are fetched and analysed
ProfitCandlesticks ==
    /\ pf.pc = "candlesticks"
    /\ \E result \in CandlestickResults :
          pf' = [pf EXCEPT !.fetched = TRUE,
                           !.pc = IF result = "negative" THEN "sell" ELSE "kept"]
    /\ UNCHANGED nonProfitVars

\* lines 382-384: place_market_sell_order
ProfitSell ==
    /\ pf.pc = "sell"
    /\ pf' = [pf EXCEPT !.pc = "sold", !.sold = TRUE]
    /\ UNCHANGED nonProfitVars

ProfitNext ==
    \/ ProfitCheck
    \/ ProfitCandlesticks
    \/ ProfitSell

-----------------------------------------------------------------------------
(* SaxoClient._instruments and SaxoMarket._symbols: the symbol caches *)

MaxCalls == 3

\* the client instances of one process: a trader's market and broker, and
\* another trader's market
CacheClients == {"market 1", "broker 1", "market 2"}
CacheMarkets == {"market 1", "market 2"}

SymbolKeys == {"A", "B"}
ExchangeKeys == {"US", "OSE"}

\* clients/saxo.py lines 56-57: _instruments = {} is an attribute of the
\* class SaxoClient, and no method assigns self._instruments: every
\* instance reads and writes the dict of the class
InstrumentsOf(caches, client) == caches.instruments

\* markets/saxo.py line 30: _symbols = {} is an attribute of the class
\* SaxoMarket, and list_symbols writes into that dict
SymbolsOf(caches, client) == caches.symbols

CacheQuiet ==
    ic = [pc |-> "off", instruments |-> {}, symbols |-> {}, calls |-> 0,
          last |-> [client |-> "none", op |-> "none", key |-> "none",
                    requests |-> 0, raised |-> FALSE]]

\* the process has started: the class bodies have run, no symbol is cached
CacheInit ==
    ic = [pc |-> "on", instruments |-> {}, symbols |-> {}, calls |-> 0,
          last |-> [client |-> "none", op |-> "none", key |-> "none",
                    requests |-> 0, raised |-> FALSE]]

\* SaxoClient.lookup_symbol, lines 158-171: a cached name is returned without
\* a request; otherwise the search is sent, and its first result is cached
\* under the name.  A search without result raises at line 168.
CacheLookup ==
    /\ ic.pc = "on" /\ ic.calls < MaxCalls
    /\ \E client \in CacheClients, name \in SymbolKeys, found \in BOOLEAN :
          IF name \in InstrumentsOf(ic, client)
          THEN ic' = [ic EXCEPT !.calls = @ + 1,
                         !.last = [client |-> client, op |-> "lookup_symbol",
                                   key |-> name, requests |-> 0, raised |-> FALSE]]
          ELSE ic' = [ic EXCEPT !.calls = @ + 1,
                         !.instruments = IF found THEN @ \cup {name} ELSE @,
                         !.last = [client |-> client, op |-> "lookup_symbol",
                                   key |-> name, requests |-> 1,
                                   raised |-> ~found]]
    /\ UNCHANGED nonCacheVars

\* SaxoMarket.list_symbols, lines 66-103, for one exchange code: a cached
\* list is returned without a request; otherwise the list is requested and
\* cached under the exchange code.  A failing request raises.
CacheListSymbols ==
    /\ ic.pc = "on" /\ ic.calls < MaxCalls
    /\ \E client \in CacheMarkets, code \in ExchangeKeys, ok \in BOOLEAN :
          IF code \in SymbolsOf(ic, client)
          THEN ic' = [ic EXCEPT !.calls = @ + 1,
                         !.last = [client |-> client, op |-> "list_symbols",
                                   key |-> code, requests |-> 0, raised |-> FALSE]]
          ELSE ic' = [ic EXCEPT !.calls = @ + 1,
                         !.symbols = IF ok THEN @ \cup {code} ELSE @,
                         !.last = [client |-> client, op |-> "list_symbols",
                                   key |-> code, requests |-> 1, raised |-> ~ok]]
    /\ UNCHANGED nonCacheVars

CacheNext ==
    \/ CacheLookup
    \/ CacheListSymbols

-----------------------------------------------------------------------------
(* Two SaxoClient instances of one process on one token database *)

MaxPairRequests == 4
PairStep == 600
MaxPairClock == 3000

\* __init__.py lines 70-78 and Trader.__init__: one market object, and a
\* broker object for the trader
PairClients == {"market", "broker"}

PairQuiet ==
    tw = [pc |-> "off", now |-> 0, db |-> NewToken(1, 0), issued |-> 1,
          requests |-> 0, last |-> <<>>,
          tokens |-> [c \in PairClients |-> NoneToken]]

\* the token database holds the credential of an earlier session, granted
\* at 0; _token is None in both instances (clients/saxo.py line 56)
PairInit ==
    tw = [pc |-> "on", now |-> 0, db |-> NewToken(1, 0), issued |-> 1,
          requests |-> 0, last |-> <<>>,
          tokens |-> [c \in PairClients |-> NoneToken]]

\* time passes between two calls
PairTick ==
    /\ tw.pc = "on" /\ tw.now < MaxPairClock
    /\ tw' = [tw EXCEPT !.now = @ + PairStep]
    /\ UNCHANGED nonPairVars

\* the credential a use is made of, and the one the vendor issued last
UseOf(client, what, tok) ==
    [client |-> client, what |-> what, id |-> tok.id, latest |-> tw.issued]

\* SaxoClient.authenticate lines 121-123: the database is read when the
\* instance has no _token yet
PairLoaded(client) ==
    IF tw.tokens[client].kind = "none" THEN GetToken(tw.db)
    ELSE tw.tokens[client]

\* a request of one instance, the constructor's authenticate() included:
\* authenticate() (lines 121-139) on the instance's own _token, with
\* _refresh_token (lines 344-363), which keeps the new credential in memory
\* and does not store it, or the interactive authorization, which stores
\* it; then the request is sent with the instance's access token
PairRequest(c) ==
    /\ tw.pc = "on" /\ tw.requests < MaxPairRequests
    /\ LET tok == PairLoaded(c)
           d == AuthDecision(tok, tw.now)
           fresh == NewToken(tw.issued + 1, tw.now)
       IN  CASE d = "valid" ->
                   tw' = [tw EXCEPT !.requests = @ + 1, !.tokens[c] = tok,
                             !.last = <<UseOf(c, "access_token", tok)>>]
             [] d = "refresh" ->
                   \E answer \in {"ok", "http_error"} :
                      IF answer = "ok"
                      THEN tw' = [tw EXCEPT !.requests = @ + 1,
                                     !.tokens[c] = fresh, !.issued = @ + 1,
                                     !.last = <<UseOf(c, "refresh_token", tok),
                                                [client |-> c, what |-> "access_token",
                                                 id |-> fresh.id, latest |-> fresh.id]>>]
                      ELSE tw' = [tw EXCEPT !.requests = @ + 1, !.tokens[c] = tok,
                                     !.last = <<UseOf(c, "refresh_token", tok)>>]
             [] OTHER ->
                   \E granted \in BOOLEAN :
                      IF granted
                      THEN tw' = [tw EXCEPT !.requests = @ + 1,
                                     !.tokens[c] = fresh, !.issued = @ + 1,
                                     !.db = StoreToken(fresh),
                                     !.last = <<[client |-> c, what |-> "access_token",
                                                 id |-> fresh.id, latest |-> fresh.id]>>]
                      ELSE tw' = [tw EXCEPT !.requests = @ + 1, !.tokens[c] = tok,
                                     !.last = <<>>]
    /\ UNCHANGED nonPairVars

PairNext ==
    \/ PairTick
    \/ \E c \in PairClients : PairRequest(c)

-----------------------------------------------------------------------------
(* The specifications *)

Init == SaxoInit /\ ClientQuiet /\ TraderQuiet /\ RunQuiet /\ CancelQuiet /\ PositionsQuiet /\ OrderQuiet /\ SharedQuiet /\ KeyQuiet /\ StoreQuiet /\ AlignQuiet /\ ProfitQuiet /\ CacheQuiet /\ PairQuiet

Next == SaxoNext

Spec == Init /\ [][Next]_vars

InitClient == SaxoInit /\ ClientInit /\ TraderQuiet /\ RunQuiet /\ CancelQuiet /\ PositionsQuiet /\ OrderQuiet /\ SharedQuiet /\ KeyQuiet /\ StoreQuiet /\ AlignQuiet /\ ProfitQuiet /\ CacheQuiet /\ PairQuiet

NextClient == ClientNext

SpecClient == InitClient /\ [][NextClient]_vars

InitTrader == SaxoInit /\ ClientQuiet /\ TraderInit /\ RunQuiet /\ CancelQuiet /\ PositionsQuiet /\ OrderQuiet /\ SharedQuiet /\ KeyQuiet /\ StoreQuiet /\ AlignQuiet /\ ProfitQuiet /\ CacheQuiet /\ PairQuiet

NextTrader == TraderNext

SpecTrader == InitTrader /\ [][NextTrader]_vars

InitRun == SaxoInit /\ ClientQuiet /\ TraderQuiet /\ RunInit /\ CancelQuiet /\ PositionsQuiet /\ OrderQuiet /\ SharedQuiet /\ KeyQuiet /\ StoreQuiet /\ AlignQuiet /\ ProfitQuiet /\ CacheQuiet /\ PairQuiet

NextRun == RunNext

SpecRun == InitRun /\ [][NextRun]_vars

InitCancel == SaxoInit /\ ClientQuiet /\ TraderQuiet /\ RunQuiet /\ CancelInit /\ PositionsQuiet /\ OrderQuiet /\ SharedQuiet /\ KeyQuiet /\ StoreQuiet /\ AlignQuiet /\ ProfitQuiet /\ CacheQuiet /\ PairQuiet

NextCancel == CancelNext

SpecCancel == InitCancel /\ [][NextCancel]_vars

InitPositions == SaxoInit /\ ClientQuiet /\ TraderQuiet /\ RunQuiet /\ CancelQuiet /\ PositionsInit /\ OrderQuiet /\ SharedQuiet /\ KeyQuiet /\ StoreQuiet /\ AlignQuiet /\ ProfitQuiet /\ CacheQuiet /\ PairQuiet

NextPositions == PositionsNext

SpecPositions == InitPositions /\ [][NextPositions]_vars

\* get_positions is straight-line code around its requests: a call that has
\* begun goes on until it returns or raises
SpecPositionsFair == SpecPositions /\ WF_vars(NextPositions)

InitOrder == SaxoInit /\ ClientQuiet /\ TraderQuiet /\ RunQuiet /\ CancelQuiet /\ PositionsQuiet /\ OrderInit /\ SharedQuiet /\ KeyQuiet /\ StoreQuiet /\ AlignQuiet /\ ProfitQuiet /\ CacheQuiet /\ PairQuiet

NextOrder == OrderNext

SpecOrder == InitOrder /\ [][NextOrder]_vars

InitShared == SaxoInit /\ ClientQuiet /\ TraderQuiet /\ RunQuiet /\ CancelQuiet /\ PositionsQuiet /\ OrderQuiet /\ SharedInit /\ KeyQuiet /\ StoreQuiet /\ AlignQuiet /\ ProfitQuiet /\ CacheQuiet /\ PairQuiet

NextShared == SharedNext

SpecShared == InitShared /\ [][NextShared]_vars

InitKey == SaxoInit /\ ClientQuiet /\ TraderQuiet /\ RunQuiet /\ CancelQuiet /\ PositionsQuiet /\ OrderQuiet /\ SharedQuiet /\ KeyInit /\ StoreQuiet /\ AlignQuiet /\ ProfitQuiet /\ CacheQuiet /\ PairQuiet

NextKey == KeyNext

SpecKey == InitKey /\ [][NextKey]_vars

InitStore == SaxoInit /\ ClientQuiet /\ TraderQuiet /\ RunQuiet /\ CancelQuiet /\ PositionsQuiet /\ OrderQuiet /\ SharedQuiet /\ KeyQuiet /\ StoreInit /\ AlignQuiet /\ ProfitQuiet /\ CacheQuiet /\ PairQuiet

NextStore == StoreNext

SpecStore == InitStore /\ [][NextStore]_vars

InitAlign == SaxoInit /\ ClientQuiet /\ TraderQuiet /\ RunQuiet /\ CancelQuiet /\ PositionsQuiet /\ OrderQuiet /\ SharedQuiet /\ KeyQuiet /\ StoreQuiet /\ AlignInit /\ ProfitQuiet /\ CacheQuiet /\ PairQuiet

NextAlign == AlignNext

SpecAlign == InitAlign /\ [][NextAlign]_vars

InitProfit == SaxoInit /\ ClientQuiet /\ TraderQuiet /\ RunQuiet /\ CancelQuiet /\ PositionsQuiet /\ OrderQuiet /\ SharedQuiet /\ KeyQuiet /\ StoreQuiet /\ AlignQuiet /\ ProfitInit /\ CacheQuiet /\ PairQuiet

NextProfit == ProfitNext

SpecProfit == InitProfit /\ [][NextProfit]_vars

InitCache == SaxoInit /\ ClientQuiet /\ TraderQuiet /\ RunQuiet /\ CancelQuiet /\ PositionsQuiet /\ OrderQuiet /\ SharedQuiet /\ KeyQuiet /\ StoreQuiet /\ AlignQuiet /\ ProfitQuiet /\ CacheInit /\ PairQuiet

NextCache == CacheNext

SpecCache == InitCache /\ [][NextCache]_vars

InitPair == SaxoInit /\ ClientQuiet /\ TraderQuiet /\ RunQuiet /\ CancelQuiet /\ PositionsQuiet /\ OrderQuiet /\ SharedQuiet /\ KeyQuiet /\ StoreQuiet /\ AlignQuiet /\ ProfitQuiet /\ CacheQuiet /\ PairInit

NextPair == PairNext

SpecPair == InitPair /\ [][NextPair]_vars

-----------------------------------------------------------------------------
(* Properties of SaxoClient.authenticate and SaxoClient.request *)

Count(log, e) == Cardinality({i \in DOMAIN log : log[i] = e})

HttpEvents == {"http:ok", "http:rl", "http:401", "http:429", "http:error"}

\* every activation of the current top-level call, ended or not
Frames == {finished[i] : i \in DOMAIN finished} \cup {stack[i] : i \in DOMAIN stack}

RequestFrames == {f \in Frames : f.op = "request"}

\* C1: when authenticate() returns normally without a refresh exchange or an
\* interactive authorization, the real age of the access token (now minus
\* its timestamp, whole days included) is below expires_in.
C1_ReturnedTokenIsFresh ==
    (authRet.set /\ ~authRet.refreshed /\ ~authRet.interactive)
        => authRet.at - authRet.token.timestamp < authRet.token.expires_in

\* C5: within one request() activation a 401 invalidates the credential at
\* most once, reauthenticates at most once and re-issues the call at most
\* once, with a credential issued after the 401; a 401 to the re-issued call
\* leaves request() as an error, with no further call or reauthentication.
C5_Frame(f) ==
    /\ Count(f.log, "invalidate") <= 1
    /\ Count(f.log, "reauth") <= 1
    /\ \A i \in DOMAIN f.log :
          f.log[i] = "invalidate" => (i > 1 /\ f.log[i - 1] = "http:401")
    /\ \A i \in DOMAIN f.log :
          f.log[i] = "reauth" =>
             /\ Cardinality({j \in DOMAIN f.log : j > i /\ f.log[j] \in HttpEvents}) <= 1
             /\ \A j \in DOMAIN f.log :
                   (j > i /\ f.log[j] \in HttpEvents) => f.credRetry > f.issuedAt401
             /\ \A j \in DOMAIN f.log :
                   (j > i /\ f.log[j] = "http:401") =>
                       (j = Len(f.log) /\ f.outcome = "raised")

C5_One401RetryPerRequest == \A f \in RequestFrames : C5_Frame(f)

\* a request() that was answered 401, reauthenticated, re-issued the call
\* and was answered 401 again
C5_Witness ==
    \E f \in RequestFrames :
        /\ f.outcome = "raised"
        /\ Count(f.log, "reauth") = 1
        /\ Count(f.log, "http:401") = 2

\* C8: after every authenticate() that returns normally, the row of the token
\* table equals the credential in memory.
C8_StoreEqualsMemory == authRet.set => authRet.db = authRet.token

-----------------------------------------------------------------------------
(* Properties of Client.request *)

Min(a, b) == IF a < b THEN a ELSE b

\* k: the number of leading answers whose status is in retry_on_status_codes
RECURSIVE LeadingRetryable(_)
LeadingRetryable(i) ==
    IF i <= Len(cr.responses) /\ cr.responses[i] \in cr.allow /\ RaisesForStatus(cr.responses[i])
    THEN 1 + LeadingRetryable(i + 1)
    ELSE 0

ClientDone == cr.pc \in {"returned", "raised"}

BuyOrders == {i \in DOMAIN tr.orders : tr.orders[i].side = "BUY"}

\* C3: a buy order is submitted only if its amount is at most the cash
\* balance it was sized on less min_broker_cash_balance, so that the buys of
\* a cycle never take the broker's cash below min_broker_cash_balance.
C3_BuyLeavesMinBrokerCash ==
    /\ \A i \in BuyOrders :
          tr.orders[i].amount <= tr.orders[i].cash - tcfg.min_broker_cash_balance
    /\ (\E i \in BuyOrders : tr.orders[i].accepted)
          => tr.ledger >= tcfg.min_broker_cash_balance

\* C4: with max_buy_amount configured (> 0), no buy order is submitted whose
\* amount exceeds max_buy_amount.
C4_BuyWithinMaxBuyAmount ==
    tcfg.max_buy_amount > 0 =>
        \A i \in BuyOrders : tr.orders[i].amount <= tcfg.max_buy_amount

\* C9: within one trade() call at most one buy order is submitted per symbol
\* name and at most one sell order per open position (a failed placement is
\* an order of the cycle like an accepted one).
C9_OneOrderPerSymbolAndPosition ==
    \A i, j \in DOMAIN tr.orders :
        i # j =>
            \/ tr.orders[i].side # tr.orders[j].side
            \/ /\ tr.orders[i].side = "BUY"
               /\ tr.orders[i].name # tr.orders[j].name
            \/ /\ tr.orders[i].side = "SELL"
               /\ tr.orders[i].id # tr.orders[j].id

\* C2: a trader whose trade() raised is rescheduled by run(): once the
\* exception handler has run, its next_run is a time, not None.
C2_RaisedTraderIsRescheduled ==
    \A i \in DOMAIN rn.traders :
        rn.traders[i].raised => rn.traders[i].next_run # NoRun

\* the examined orders of the list that were active and older than max_age
\* when they were examined
StaleActive ==
    {k \in DOMAIN co.at :
        co.orders[k].active /\ co.at[k] - co.orders[k].placed > co.lifetime}

\* the number of cancel requests that name order k
CancelsOf(k) == Cardinality({r \in DOMAIN co.requests : k \in co.requests[r]})

\* C6: a cancel_stale_orders call that returns has examined every order of
\* the list, has sent exactly one cancel for each order that was active and
\* older than max_age and none for any other, returns one entry per
\* cancelled order, and has fetched the live orders once if no list was
\* passed and not at all if one was; for an empty list nothing is sent and
\* the result is empty.  At every moment of a call the cancels sent are for
\* stale active orders, one each.
C6_CancelsExactlyStaleActive ==
    /\ co.pc \in {"loop", "returned", "raised"} =>
          \A r \in DOMAIN co.requests : co.requests[r] # {}
    /\ co.pc \in {"loop", "returned", "raised"} =>
          \A k \in DOMAIN co.orders :
              /\ CancelsOf(k) <= 1
              /\ CancelsOf(k) = 1 => k \in StaleActive
    /\ co.pc = "returned" =>
          /\ Len(co.at) = Len(co.orders)
          /\ co.orders = co.live
          /\ \A k \in DOMAIN co.orders :
                CancelsOf(k) = IF k \in StaleActive THEN 1 ELSE 0
          /\ Len(co.cancelled_orders) = Cardinality(StaleActive)
          /\ {co.cancelled_orders[k] : k \in DOMAIN co.cancelled_orders} = StaleActive
          /\ co.fetches = IF co.given THEN 0 ELSE 1
          /\ co.orders = <<>> => co.requests = <<>> /\ co.cancelled_orders = <<>>

\* a call that returned after cancelling an order, leaving
\* alone an active order as old as max_age and an order that is not active
C6_Witness ==
    /\ co.pc = "returned"
    /\ co.lifetime = 120
    /\ \E k \in DOMAIN co.orders : CancelsOf(k) = 1
    /\ \E k \in DOMAIN co.orders :
          /\ co.orders[k].active
          /\ co.at[k] - co.orders[k].placed = co.lifetime
          /\ CancelsOf(k) = 0
    /\ \E k \in DOMAIN co.orders :
          /\ ~co.orders[k].active
          /\ co.at[k] - co.orders[k].placed > co.lifetime

\* the entries of the pages with a quantity other than 0, in page order
RECURSIVE NonZeroEntries(_)
NonZeroEntries(pages) ==
    IF pages = <<>> THEN <<>>
    ELSE NonZero(Head(pages)) \o NonZeroEntries(Tail(pages))

\* C7: a get_positions call that returns gives one Position for each entry
\* of the result pages with a quantity other than 0, in page order, and none
\* for an entry with quantity 0.
C7_PositionsOfAllPages ==
    gp.pc = "returned" => gp.positions = NonZeroEntries(gp.pages)

\* C11: within one request() call the 120 s cooldown is slept at most once
\* and the call is re-issued because of rate limiting at most once, whether
\* the rate limit shows as a 2xx body with ErrorCode RateLimitExceeded or
\* as HTTP 429.
C11_OneCooldownPerRequest ==
    \A f \in RequestFrames : Count(f.log, "sleep") <= 1

\* a prompt of a type place_order confirms: one of its texts is the missing
\* market data warning or the mandatory cap price confirmation
Recognized(prompt) ==
    \E j \in DOMAIN prompt.content :
        prompt.content[j] \in {"no_market_data", "cap_price"}

RepliesTo(k) == Cardinality({r \in DOMAIN po.replies : po.replies[r] = k})

\* C12: IBKR.place_order sends one 'confirmed' reply for each prompt of a
\* recognized type and takes it out of the order's message list; it sends
\* no reply for any other prompt and leaves it in the list, in the order the
\* vendor gave, and logs an error if any is left.  While the call runs no
\* prompt other than a recognized one is replied to, and none twice.
C12_RepliesToRecognizedPrompts ==
    /\ \A k \in DOMAIN po.prompts :
          /\ RepliesTo(k) <= 1
          /\ RepliesTo(k) = 1 => Recognized(po.prompts[k])
    /\ po.pc = "returned" =>
          /\ \A k \in DOMAIN po.prompts :
                RepliesTo(k) = IF Recognized(po.prompts[k]) THEN 1 ELSE 0
          /\ LET Unrecognized(prompt) == ~Recognized(prompt)
             IN  po.messages = SelectSeq(po.prompts, Unrecognized)
          /\ po.logged = (\E k \in DOMAIN po.prompts : ~Recognized(po.prompts[k]))

\* a call that returned after confirming a prompt that stood between two
\* prompts it left unresolved
C12_Witness ==
    /\ po.pc = "returned"
    /\ Len(po.prompts) = 3
    /\ ~Recognized(po.prompts[1])
    /\ Recognized(po.prompts[2])
    /\ ~Recognized(po.prompts[3])
    /\ po.replies = <<2>>
    /\ Len(po.messages) = 2

\* the vendor calls trade() makes on behalf of one position or symbol
CandidateCalls ==
    {"market.get_candlesticks", "market.get_symbol_quote", "exchange.is_open",
     "broker.place_order", "broker.refresh after a buy"}

\* C13: the failure of a vendor call made for one position or symbol during
\* the sell and buy evaluation does not leave trade(): the candidate is
\* skipped and the cycle goes on.
C13_CandidateFailureStaysInCycle ==
    tr.pc = "raised" => tr.failed \notin CandidateCalls

\* the orders of the cycle placed for candidate i of the sell or the buy loop
OrdersFor(side, i) ==
    {k \in DOMAIN tr.orders : tr.orders[k].side = side /\ tr.orders[k].idx = i}

\* C14: a position or symbol whose candlestick fetch raised NoDataException
\* gets no order, the exception does not leave the evaluation, and the loop
\* goes on with the candidates after it.
C14_NoDataSkipsOnlyTheCandidate ==
    /\ \A c \in tr.nodata : OrdersFor(c[1], c[2]) = {}
    /\ tr.pc = "sell" => \A c \in tr.nodata : c[1] = "SELL" => c[2] < tr.pi
    /\ tr.pc \in {"buy", "buy_place", "buy_refresh"} =>
          \A c \in tr.nodata : c[1] = "BUY" => c[2] < tr.si
    /\ tr.pc = "raised" => tr.failed # "market.get_candlesticks"

\* a cycle that ran to its end in which the first position and the first
\* symbol had no candlesticks, and the second position was sold and the
\* second symbol bought
C14_Witness ==
    /\ tr.pc = "done"
    /\ <<"SELL", 1>> \in tr.nodata /\ OrdersFor("SELL", 2) # {}
    /\ <<"BUY", 1>> \in tr.nodata /\ OrdersFor("BUY", 2) # {}

\* the first broker refresh of the cycle was answered HTTP 401
Unauthorized ==
    \E k \in DOMAIN tr.steps : tr.steps[k] = "broker.refresh: HTTP 401"

\* C15: when the broker refresh at the start of trade() raises an HTTP 401,
\* the cycle ends there: the live orders are not fetched, nothing is
\* cancelled, no position or symbol is evaluated and no order placed,
\* next_run is set from calculate_next_run(), and trade() returns.
C15_UnauthorizedRefreshEndsCycle ==
    Unauthorized =>
        /\ tr.pc = "done"
        /\ tr.failed = "none"
        /\ tr.next_run = "set"
        /\ tr.steps = <<"market.refresh", "broker.refresh: HTTP 401",
                        "calculate_next_run">>
        /\ tr.orders = <<>>
        /\ tr.nodata = {}
        /\ tr.ledger = tr.cash

\* a trader with cash to buy and a position to sell whose cycle ended on the
\* HTTP 401
C15_Witness ==
    /\ Unauthorized
    /\ tr.pc = "done"
    /\ tcfg.buy /\ tcfg.sell
    /\ tr.held # <<>>
    /\ BuyGateOpen(tr.cash, tcfg)

\* C16, as the code has it: when the trader configuration has changed at a
\* tick, every trader is a freshly built instance before the first trader
\* is considered, and its next_run is what calculate_next_run() gives at
\* that time, which is later than the time of the tick: no rebuilt trader
\* is run in that tick.  When the configuration has not changed, the
\* traders and their next_run are those the previous tick left.
C16_RebuiltTradersWaitForNextRun ==
    /\ (rn.pc = "loop" /\ rn.rebuilt) =>
          \A i \in DOMAIN rn.traders :
              /\ ~rn.traders[i].raised
              /\ rn.traders[i].trades = 0
              /\ rn.traders[i].next_run = CalculateNextRun(rn.clock, rn.traders[i])
              /\ rn.traders[i].next_run > rn.clock
    /\ (rn.pc = "loop" /\ rn.idx = 1 /\ ~rn.rebuilt) => rn.traders = rn.before

\* the loop has passed over both traders rebuilt at a tick later than the
\* start, after one of them had run
C16_Witness ==
    /\ rn.pc = "loop" /\ rn.rebuilt
    /\ rn.idx > Len(rn.traders)
    /\ rn.clock > 0
    /\ \E i \in DOMAIN rn.before : rn.before[i].trades > 0

\* C16 as stated: the next_run of every rebuilt trader is the current time,
\* so that it is eligible to run in the tick of the rebuild.
C16_RebuiltTradersAreDue ==
    (rn.pc = "loop" /\ rn.rebuilt /\ rn.idx = 1) =>
        \A i \in DOMAIN rn.traders : rn.traders[i].next_run = rn.clock

\* C17: the loop of run() never ends: whatever raises during a tick, the
\* loop goes on to the next tick.
C17_LoopNeverEnds == rn.pc # "dead"

\* C20: while a request made for one trader sleeps, another trader whose
\* next_run has been reached is not kept waiting: when the sleep ends, no
\* other trader is due.
C20_SleepBlocksNoDueTrader ==
    rn.pc = "asleep" =>
        \A j \in DOMAIN rn.traders :
            j # rn.idx => ~IsDue(rn.traders[j], rn.clock)

\* the quantity C18 describes: the cash fraction divided by the price and
\* rounded down; raised, if its amount is below min_buy_amount, to the least
\* quantity whose amount reaches it; then lowered, if its amount is above a
\* configured max_buy_amount, to the greatest quantity whose amount is
\* within it
DescribedQuantity(cash, c, price) ==
    LET q0 == (cash * c.fnum) \div (c.fden * price)
        q1 == IF q0 * price < c.min_buy_amount
              THEN (c.min_buy_amount + price - 1) \div price
              ELSE q0
    IN  IF c.max_buy_amount > 0 /\ q1 * price > c.max_buy_amount
        THEN c.max_buy_amount \div price
        ELSE q1

\* C18: the quantity of the order place_market_buy_order arrives at is
\* floor(cash_balance * buy_fraction / price), incremented until the amount
\* is >= min_buy_amount, then decremented until the amount is <=
\* max_buy_amount, for every input.
C18_QuantityAsDescribed ==
    (tr.pc = "buy_place" /\ tr.order.place) =>
        tr.order.quantity = DescribedQuantity(tr.cash, tcfg, tr.order.price)

-----------------------------------------------------------------------------
(* Properties of SaxoClient.authenticate under several callers *)

\* the callers arrive with an expired access token and a valid refresh token
RefreshIsDue == AuthDecision(NewToken(1, 0), sc.now) = "refresh"

\* no refresh exchange has failed so far
NoRefreshFailed ==
    /\ sc.token.kind = "cred"
    /\ \A c \in Callers : sc.callers[c].pc # "raised"

\* C19: when several request paths call authenticate() on one client whose
\* access token has expired and whose refresh token is valid, and no
\* exchange fails, at most one refresh exchange is in flight at any time, no
\* more than one exchange is issued, exactly one once every caller has
\* returned, and the callers that have returned continue with the same
\* credential.
C19_OneRefreshExchange ==
    (RefreshIsDue /\ NoRefreshFailed) =>
        /\ Cardinality({c \in Callers : sc.callers[c].pc = "inflight"}) <= 1
        /\ sc.posts <= 1
        /\ (\A c \in Callers : sc.callers[c].pc = "returned") => sc.posts = 1
        /\ \A c, d \in Callers :
              (sc.callers[c].pc = "returned" /\ sc.callers[d].pc = "returned")
                  => sc.callers[c].got = sc.callers[d].got

-----------------------------------------------------------------------------
(* Properties of the order key *)

-----------------------------------------------------------------------------
(* Properties of the interactive authorization *)

\* the activation f ended on a state that did not match
EndedOnMismatch(f) == f.log # <<>> /\ f.log[Len(f.log)] = "state_mismatch"

-----------------------------------------------------------------------------
(* Properties of SaxoDB *)

\* C23: once a first credential has been stored, every committed state of
\* the token table, the states inside store_token and after a crash in it
\* included, holds exactly one complete record: the one stored last or the
\* one being stored.
C23_OneRecordAtAllTimes ==
    tb.completed >= 1 =>
        /\ Len(tb.table) = 1
        /\ tb.table[1] \in {TokenRow(tb.last), TokenRow(tb.token)}

\* what get_token is to return for a stored credential: its fields of the
\* schema, None for those it does not hold
SchemaFields(tok) ==
    [k \in {FieldNames[i] : i \in DOMAIN FieldNames} |->
        IF k \in DOMAIN tok THEN tok[k] ELSE None]

\* C24: after one or more completed store_token calls the token table holds
\* exactly one record and get_token returns the fields of the schema of the
\* credential stored last; get_token on an empty table returns the empty
\* credential.
C24_GetReturnsLastStored ==
    /\ (tb.pc = "idle" /\ tb.completed >= 1) => Len(tb.table) = 1
    /\ (tb.fetched /\ tb.completed >= 1) => tb.got = SchemaFields(tb.last)
    /\ (tb.fetched /\ tb.completed = 0) => tb.got = <<>>

\* a second credential, with a key outside the schema and a timestamp with
\* microseconds, was stored over a first one and fetched
C24_Witness ==
    /\ tb.fetched /\ tb.completed = 2
    /\ "authentication_code" \in DOMAIN tb.last
    /\ tb.last["timestamp"].microsecond > 0
    /\ tb.got["access_token"] = tb.last["access_token"]

-----------------------------------------------------------------------------
(* Properties of Trader.calculate_next_run *)

\* C25: for every time and every positive sleep_duration the result of
\* calculate_next_run(), less the interval delay, is the largest multiple of
\* sleep_duration that is not later than now + sleep_duration: it is later
\* than now and not later than now + sleep_duration.
C25_NextRunIsAligned ==
    nr.pc = "done" =>
        LET aligned == nr.next_run - nr.interval_delay * SecondsPerDay
        IN  /\ aligned % nr.sleep_duration = 0
            /\ aligned > nr.now
            /\ aligned <= nr.now + nr.sleep_duration

-----------------------------------------------------------------------------
(* Properties of the profit check *)

\* C26: with the profit check enabled, a position whose P&L, negative, zero
\* or positive, is below market_value * min_profit_fraction + 2 *
\* minimum_order_fee is skipped: no candlesticks are fetched for it and no
\* sell order is placed for it.
C26_BelowMinProfitIsSkipped ==
    (pf.enabled /\ pf.pnl * 100 < MinProfit(pf) /\ pf.pc \notin {"off", "check"})
        => (pf.pc = "skipped" /\ ~pf.fetched /\ ~pf.sold)

-----------------------------------------------------------------------------
(* Properties of Client.request called without a retries argument *)

\* C27: called without a retries argument, request() has a budget of 2: it
\* makes one call more for each of the first two answers whose status is in
\* retry_on_status_codes, and raises the error of the third.
C27_DefaultBudgetIsTwo ==
    (~cr.given /\ ClientDone) => cr.calls = 1 + Min(2, LeadingRetryable(1))

-----------------------------------------------------------------------------
(* Properties of the requests a SaxoClient sends *)

\* C29: every HTTP request a SaxoClient sends to the vendor, the token
\* exchanges made with authenticate=False excepted, comes after a call of
\* authenticate() in the same operation.
C29_RequestsFollowAuthenticate ==
    \A f \in Frames :
        (f.op = "request" /\ ~f.auth)
        \/ \A i \in DOMAIN f.log :
              f.log[i] \in HttpEvents =>
                  \E j \in 1..(i - 1) : f.log[j] \in {"authenticate", "reauth"}

-----------------------------------------------------------------------------
(* Properties of the decision of SaxoClient.authenticate *)

\* the activations of the request _refresh_token makes
RefreshFrames == {f \in Frames : f.op = "request" /\ ~f.auth}

\* C28: for a credential younger than 24 hours authenticate() does exactly
\* one of three things.  When it has decided on the refresh exchange (the
\* access token has expired, the refresh token has not), it makes one
\* exchange and no interactive authorization; a return of authenticate()
\* has not both refreshed and authorized.
C28_OneActionPerAuthenticate ==
    now < SecondsPerDay =>
        /\ \A f \in RefreshFrames :
              /\ Cardinality({i \in DOMAIN f.log : f.log[i] \in HttpEvents}) <= 1
              /\ \A i \in DOMAIN f.log :
                    f.log[i] \notin {"reauth", "exchange"} \cup InteractiveOutcomes
        /\ authRet.set => ~(authRet.refreshed /\ authRet.interactive)

\* the points of trade() at which a decision reads broker.cash_balance: the
\* gate of the buy phase (line 564), and the max-position threshold and the
\* order sizing of the next symbol (line 437, place_market_buy_order)
ReadsGate == tr.pc = "buy_gate" /\ tcfg.buy
ReadsInBuyLoop == tr.pc = "buy" /\ tr.si <= Len(tr.symbols)

\* no order the broker accepted was submitted after cash_balance was fetched
BalanceIsFresh ==
    \A i \in (tr.fetched + 1)..Len(tr.orders) : ~tr.orders[i].accepted

\* C30: in one trading cycle every decision that reads the broker cash
\* balance (the gate of the buy phase, the max-position threshold, each order
\* sizing) reads a balance fetched after the most recent order placement of
\* the cycle
C30_DecisionsReadFreshBalance == (ReadsGate \/ ReadsInBuyLoop) => BalanceIsFresh

\* the part of C30 the buy loop keeps: the threshold and the sizing of a
\* symbol read a balance fetched after every order submitted before them
BuyLoopReadsFreshBalance == ReadsInBuyLoop => BalanceIsFresh

\* a gate that reads a balance older than an accepted sell order, which has
\* changed the broker's cash
GateReadsStaleBalance == ReadsGate /\ ~BalanceIsFresh /\ tr.cash # tr.ledger

\* the user symbols configured under an exchange
UserSymbols(e) == {e.symbols[i].name : i \in DOMAIN e.symbols}

\* the configured exchanges a symbol may have come from: the symbol is one
\* of its user symbols, or the exchange has a _random_N entry and lists it
SourcesOf(n) ==
    {i \in DOMAIN tcfg.exchanges :
        LET e == tcfg.exchanges[i]
        IN  \/ n \in UserSymbols(e)
            \/ "_random" \in UserSymbols(e) /\ n \in e.listed}

\* a sell order answers to what C31 asks of it
SellIsJustified(o) ==
    /\ tcfg.sell
    /\ o.name \in SymbolNames(tcfg.exchanges)
    /\ \A i \in DOMAIN tcfg.exchanges :
          o.name \in UserSymbols(tcfg.exchanges[i])
             => tcfg.exchanges[i].status = "open"
    /\ o.bars >= MinCandlesticks /\ o.score < 0

\* a buy order answers to what C31 asks of it, but for the exchange
BuyIsSignalled(o) ==
    /\ tcfg.buy
    /\ tr.gate > tcfg.min_buy_amount + tcfg.min_broker_cash_balance
    /\ o.bars >= MinCandlesticks /\ o.score > 0

\* C31: a sell order is placed only if selling is enabled, the symbol is
\* configured, its configured exchange is open, at least 5 bars were returned
\* and the score is < 0; a buy order only if buying is enabled, the balance
\* exceeded min_buy_amount + min_broker_cash_balance at the gate, its
\* exchange is open, at least 5 bars were returned and the score is > 0
C31_OrdersAreJustified ==
    \A k \in DOMAIN tr.orders :
        LET o == tr.orders[k]
        IN  IF o.side = "SELL"
            THEN SellIsJustified(o)
            ELSE /\ BuyIsSignalled(o)
                 /\ \E i \in SourcesOf(o.name) : tcfg.exchanges[i].status = "open"

\* what holds of C31: every condition but the open exchange of a buy order,
\* which is one that is not closed
OrdersAreJustifiedButUnknown ==
    \A k \in DOMAIN tr.orders :
        LET o == tr.orders[k]
        IN  IF o.side = "SELL"
            THEN SellIsJustified(o)
            ELSE /\ BuyIsSignalled(o)
                 /\ \E i \in SourcesOf(o.name) : tcfg.exchanges[i].status # "closed"

\* a buy order for a symbol configured under an exchange without opening hours
BuysUnderUnknownExchange ==
    \E k \in DOMAIN tr.orders :
        /\ tr.orders[k].side = "BUY"
        /\ \A i \in SourcesOf(tr.orders[k].name) : tcfg.exchanges[i].status = "unknown"

\* lines 436-459 on the positions the broker holds when the symbol is
\* evaluated: their summed value exceeds the cap
OverCapNow ==
    LET value == PositionSum(tr.held, tr.symbols[tr.si])
    IN  value * tcfg.fden >
           tcfg.max_position_value
              * Max(tr.cash * tcfg.fnum, tcfg.min_buy_amount * tcfg.fden)

\* a buy order is about to be submitted for the symbol that was evaluated
SubmitsBuy == tr.pc = "buy_place" /\ tr.order.place

\* C32: with a max_position_value multiplier m > 0 no buy order is submitted
\* for a symbol whose open positions' summed market value exceeds
\* m * max(cash_balance * buy_fraction, min_buy_amount) at the time the
\* symbol is evaluated
C32_NoBuyOverTheCap ==
    (SubmitsBuy /\ tcfg.max_position_value > 0) => ~OverCapNow

\* what holds of C32: the cap is kept on the positions that were open when
\* the buy loop began
NoBuyOverTheCapAtLoopStart ==
    (SubmitsBuy /\ tcfg.max_position_value > 0)
        => ~OverMaxPosition(tr.positions, tr.symbols[tr.si], tr.cash, tcfg)

\* a second buy order of the cycle for one symbol, over the cap
BuysTwiceOverTheCap ==
    /\ SubmitsBuy /\ tcfg.max_position_value > 0 /\ OverCapNow
    /\ \E k \in DOMAIN tr.orders :
          /\ tr.orders[k].side = "BUY" /\ tr.orders[k].accepted
          /\ tr.orders[k].name = tr.symbols[tr.si]

\* with no multiplier configured a symbol with open positions is bought
BuysWithoutCap ==
    /\ SubmitsBuy /\ tcfg.max_position_value = 0
    /\ PositionSum(tr.positions, tr.symbols[tr.si]) > 0

\* every configured exchange the symbol may have come from has no opening
\* hours
OnlyUnderUnknown(n) ==
    /\ SourcesOf(n) # {}
    /\ \A i \in SourcesOf(n) : tcfg.exchanges[i].status = "unknown"

\* C33: for an exchange code without known opening hours the error is logged
\* and what is configured under it is skipped: none of its symbols enters the
\* buy candidates, no position in one of its symbols is evaluated for
\* selling, and UnknownExchange does not leave trade()
C33_UnknownExchangeIsSkipped ==
    /\ \A k \in DOMAIN tr.symbols : ~OnlyUnderUnknown(tr.symbols[k])
    /\ tr.pc = "sell" =>
          \A k \in DOMAIN tr.positions : ~OnlyUnderUnknown(tr.positions[k].name)
    /\ tr.failed # "exchange.is_open"

\* UnknownExchange leaves trade(): a position is open in a symbol of the
\* exchange
UnknownExchangeLeavesTrade ==
    tr.pc = "raised" /\ tr.failed = "exchange.is_open" /\ tr.next_run = "none"

\* a symbol of the exchange is among the buy candidates
UnknownExchangeIsAnalysed ==
    /\ tr.pc = "buy" /\ tr.si <= Len(tr.symbols)
    /\ OnlyUnderUnknown(tr.symbols[tr.si])

\* what holds of C33: no position in a symbol of the exchange is evaluated
\* for selling
NoSellUnderUnknown ==
    tr.pc = "sell" =>
       \A k \in DOMAIN tr.positions : ~OnlyUnderUnknown(tr.positions[k].name)

\* the number of pages at the head of the vendor's pages that yield a
\* position
RECURSIVE Yielding(_)
Yielding(pages) ==
    IF pages = <<>> \/ NonZero(Head(pages)) = <<>> THEN 0
    ELSE 1 + Yielding(Tail(pages))

\* the page requests C34 counts for a call that returns: for IBKR one for each
\* page that yields a position and one for the page after them; for Saxo one
\* for each page up to the first without __next
PageRequests ==
    IF gp.broker = "ibkr" THEN Yielding(gp.pages) + 1
    ELSE Max(1, Len(gp.pages))

EmptyFirstPageReturns ==
    gp.pc = "returned" /\ gp.pages = <<>> /\ gp.positions = <<>> /\ gp.requests = 1

\* the place of a logged step in the order C35 gives
StepRank(step) ==
    CASE step = "market.refresh" -> 1
      [] step \in {"broker.refresh", "broker.refresh: HTTP 401",
                   "broker.refresh: HTTP error"} -> 2
      [] step = "broker.get_live_orders" -> 3
      [] step = "broker.cancel_stale_orders" -> 4
      [] step = "sell evaluation" -> 5
      [] step = "buy evaluation" -> 6
      [] step = "calculate_next_run" -> 7
      [] OTHER -> 0

HasStep(step) == \E k \in DOMAIN tr.steps : tr.steps[k] = step

\* C35: the steps of a cycle occur in the order market refresh, broker ledger
\* refresh, live-order fetch and stale-order cancellation, sell evaluation,
\* buy evaluation, next-run computation; every cancellation comes before the
\* first order placement, every sell placement before the first buy
\* placement, and next_run is None from the start of the run until the last
\* step sets it
C35_StepsInOrder ==
    /\ \A j, k \in DOMAIN tr.steps :
          j < k => StepRank(tr.steps[j]) < StepRank(tr.steps[k])
    /\ \A k \in DOMAIN tr.steps : StepRank(tr.steps[k]) > 0
    /\ tr.orders # <<>> => HasStep("broker.cancel_stale_orders")
    /\ tr.pc \in {"sell", "buy_place"} => ~HasStep("calculate_next_run")
    /\ \A j, k \in DOMAIN tr.orders :
          tr.orders[j].side = "BUY" /\ j < k => tr.orders[k].side = "BUY"
    /\ \A k \in DOMAIN tr.orders :
          IF tr.orders[k].side = "SELL" THEN HasStep("sell evaluation")
          ELSE HasStep("buy evaluation")
    /\ tr.pc = "sell" => ~HasStep("buy evaluation")
    /\ tr.pc \notin {"off", "idle", "done"} => tr.next_run = "none"
    /\ tr.pc = "done" =>
          /\ tr.next_run = "set"
          /\ tr.steps[Len(tr.steps)] = "calculate_next_run"
          /\ tr.steps[1] = "market.refresh"

\* a cycle that ran to completion through every step, with a sell order and
\* a buy order
C35_Witness ==
    /\ tr.pc = "done" /\ Len(tr.steps) = 7
    /\ \E j, k \in DOMAIN tr.orders :
          tr.orders[j].side = "SELL" /\ tr.orders[k].side = "BUY"

\* C36: each client instance owns its symbol cache: a lookup or a listing
\* through one instance leaves the cache of every other instance unchanged,
\* and a second lookup_symbol for a name the instance has cached returns the
\* cached Symbol without a vendor request
C36_CachesAreOwned ==
    [][ic'.calls # ic.calls =>
          /\ \A other \in CacheClients \ {ic'.last.client} :
                /\ InstrumentsOf(ic', other) = InstrumentsOf(ic, other)
                /\ SymbolsOf(ic', other) = SymbolsOf(ic, other)
          /\ (ic'.last.op = "lookup_symbol"
                /\ ic'.last.key \in InstrumentsOf(ic, ic'.last.client))
                => ic'.last.requests = 0]_vars

\* what holds of C36: a lookup_symbol for a cached name sends no request
CachedLookupSendsNothing ==
    [][(ic'.calls # ic.calls /\ ic'.last.op = "lookup_symbol"
          /\ ic'.last.key \in InstrumentsOf(ic, ic'.last.client))
          => ic'.last.requests = 0 /\ ~ic'.last.raised]_vars

\* a lookup through one instance is answered from what another has cached
LookupAnsweredFromAnothersCache ==
    /\ ic.calls = 2 /\ ic.last.op = "lookup_symbol" /\ ic.last.requests = 0
    /\ ic.last.client = "broker 1" /\ Cardinality(ic.instruments) = 1

\* C37: every buy order place_market_buy_order submits has quantity >= 1,
\* whatever the cash balance, the buy fraction, the price and the configured
\* min_buy_amount and max_buy_amount
C37_BuyQuantityIsPositive ==
    \A k \in DOMAIN tr.orders :
        tr.orders[k].side = "BUY" => tr.orders[k].quantity >= 1

\* what holds of C37: with a min_buy_amount configured above 0 the quantity
\* of a submitted buy order is at least 1
BuyQuantityIsPositiveWithMin ==
    tcfg.min_buy_amount > 0 =>
        \A k \in DOMAIN tr.orders :
            tr.orders[k].side = "BUY" => tr.orders[k].quantity >= 1

\* a buy order of quantity 0 is submitted and accepted
BuysNothing ==
    \E k \in DOMAIN tr.orders :
        /\ tr.orders[k].side = "BUY" /\ tr.orders[k].accepted
        /\ tr.orders[k].quantity = 0 /\ tcfg.min_buy_amount = 0

\* C38: with a market client and a broker client of one vendor in one
\* process, sharing one token database, a client that sends an authenticated
\* request holds the most recently issued credential: neither uses an access
\* token or a refresh token that the other's refresh or reauthorization has
\* superseded
C38_ClientsUseLatestCredential ==
    \A k \in DOMAIN tw.last : tw.last[k].id = tw.last[k].latest

\* a refresh is asked for with a refresh token the other client's refresh
\* has superseded
RefreshesWithSupersededToken ==
    \E k \in DOMAIN tw.last :
        /\ tw.last[k].what = "refresh_token" /\ tw.last[k].id < tw.last[k].latest
        /\ tw.db.id = 1

\* a request is sent with an access token the other client's refresh has
\* superseded
RequestsWithSupersededToken ==
    \E k \in DOMAIN tw.last :
        tw.last[k].what = "access_token" /\ tw.last[k].id < tw.last[k].latest

\* what holds of C38: while no credential has been issued in the process,
\* both clients use the credential of the database
ClientsUseStoredCredential ==
    tw.issued = 1 => \A k \in DOMAIN tw.last : tw.last[k].id = tw.db.id

\* C39: a response SaxoClient.request() returns to its caller never carries
\* the rate limit error: request() returns a response without ErrorCode
\* RateLimitExceeded, or raises
C39_NoRateLimitErrorReturned ==
    \A f \in RequestFrames : f.outcome = "returned" => f.resp # "rl"

\* what holds of C39: the first answer of a request() call is not returned
\* when it carries the rate limit error; one that is returned answers a call
\* repeated after a cooldown or after an HTTP 401
FirstRateLimitErrorIsNotReturned ==
    \A f \in RequestFrames :
        (f.outcome = "returned" /\ f.resp = "rl")
            => Count(f.log, "sleep") >= 1 \/ Count(f.log, "http:401") >= 1

\* the answer to the call repeated after the cooldown carries the error too,
\* and is returned
RateLimitErrorReturnedAfterCooldown ==
    \E f \in RequestFrames :
        /\ f.outcome = "returned" /\ f.resp = "rl"
        /\ f.log = <<"http:rl", "sleep", "http:rl">>

=============================================================================
